---------------------------- MODULE Spec2Model ----------------------------
(***************************************************************************)
(* A model of the APULA fire command server (src/server.js and its second  *)
(* revision src/unnamed/part_000): the serial line decoder, the alert      *)
(* engine, the serial link lifecycle with the simulation fallback, the     *)
(* WebSocket hub and the per-viewer video proxy sessions.                   *)
(*                                                                         *)
(* Node runs every handler to completion on one thread, so each handler    *)
(* (an event callback, a timer callback, the continuation after an await)  *)
(* is one action.  Wall-clock values (timestamps, uptime) are left out;    *)
(* a log entry carries its insertion number in place of its timestamp.     *)
(***************************************************************************)
EXTENDS Integers, Sequences, FiniteSets, TLC

(***************************************************************************)
(* Bounds of the model.                                                    *)
(***************************************************************************)
MaxClients == 3
MaxShutdownClients == 2
MaxSteps == 3
PriorConnects == 18
MaxHandles == 3
MaxLinkSteps == 2
MaxSessions == 2
MaxProducers == 2

(***************************************************************************)
(* Program constants.                                                      *)
(***************************************************************************)
LogCapacity == 1000
SnapshotLogs == 20
AnalogThreshold == 500
UrlCount == 6

\* parseInt's NaN and a missing array element, as integers no line of the
\* model parses to (TLC compares only values of one kind).
NaN == -1000001
Undefined == -1000002

(***************************************************************************)
(* Text.  A line is a sequence of one-character strings.                   *)
(***************************************************************************)
Digits == {"0", "1", "2", "3", "4", "5", "6", "7", "8", "9"}

DigitVal(c) ==
    CASE c = "0" -> 0 [] c = "1" -> 1 [] c = "2" -> 2 [] c = "3" -> 3
      [] c = "4" -> 4 [] c = "5" -> 5 [] c = "6" -> 6 [] c = "7" -> 7
      [] c = "8" -> 8 [] c = "9" -> 9

\* \s of a JavaScript regular expression and of String.prototype.trim,
\* over the characters of the model.
IsSpace(c) == c \in {" ", "\t", "\r", "\n"}

\* /^\d+$/
AllDigits(s) == Len(s) > 0 /\ \A i \in 1..Len(s) : s[i] \in Digits

RECURSIVE TrimLeft(_)
TrimLeft(s) == IF s # <<>> /\ IsSpace(Head(s)) THEN TrimLeft(Tail(s)) ELSE s

RECURSIVE TrimRight(_)
TrimRight(s) ==
    IF s # <<>> /\ IsSpace(s[Len(s)]) THEN TrimRight(SubSeq(s, 1, Len(s) - 1)) ELSE s

\* String.prototype.trim
Trim(s) == TrimRight(TrimLeft(s))

\* String.prototype.includes
Includes(s, sub) ==
    \E i \in 1..(Len(s) - Len(sub) + 1) : SubSeq(s, i, i + Len(sub) - 1) = sub

\* String.prototype.startsWith
StartsWith(s, pre) == Len(s) >= Len(pre) /\ SubSeq(s, 1, Len(pre)) = pre

\* String.prototype.split(','): the fields between the commas, empty ones kept.
RECURSIVE SplitComma(_, _)
SplitComma(s, cur) ==
    IF s = <<>> THEN <<cur>>
    ELSE IF Head(s) = "," THEN <<cur>> \o SplitComma(Tail(s), <<>>)
    ELSE SplitComma(Tail(s), Append(cur, Head(s)))

\* String.prototype.split(/\s+/): a run of white space is one separator.
RECURSIVE SplitSpace(_, _, _)
SplitSpace(s, cur, inSep) ==
    IF s = <<>> THEN <<cur>>
    ELSE IF IsSpace(Head(s))
         THEN IF inSep THEN SplitSpace(Tail(s), cur, TRUE)
              ELSE <<cur>> \o SplitSpace(Tail(s), <<>>, TRUE)
    ELSE SplitSpace(Tail(s), Append(cur, Head(s)), FALSE)

RECURSIVE DigitsValue(_, _)
DigitsValue(s, acc) ==
    IF s = <<>> \/ Head(s) \notin Digits THEN acc
    ELSE DigitsValue(Tail(s), 10 * acc + DigitVal(Head(s)))

\* parseInt(val): leading white space skipped, an optional sign, then the
\* longest prefix of digits; NaN when there is no digit.
parseInt(val) ==
    LET t == TrimLeft(val)
        neg == t # <<>> /\ Head(t) = "-"
        u == IF t # <<>> /\ Head(t) \in {"-", "+"} THEN Tail(t) ELSE t
    IN IF u = <<>> \/ Head(u) \notin Digits THEN NaN
       ELSE IF neg THEN 0 - DigitsValue(u, 0) ELSE DigitsValue(u, 0)

MapSeq(Op(_), s) == [i \in 1..Len(s) |-> Op(s[i])]

(***************************************************************************)
(* ProtocolDecoder: parseArduinoData.  The result is the array handed to   *)
(* updateSensors, or NoReading when the line matches no format (or matches *)
(* one whose length test fails).                                           *)
(***************************************************************************)
NoReading == <<>>

SENSORS_PREFIX == <<"S", "E", "N", "S", "O", "R", "S", ":">>
FIRE_WORD == <<"F", "I", "R", "E">>
FLAME_WORD == <<"F", "L", "A", "M", "E">>

\* /^\d+,\d+,\d+$/
IsFormat1(data) ==
    LET f == SplitComma(data, <<>>) IN Len(f) = 3 /\ \A i \in 1..3 : AllDigits(f[i])

\* /^\d+\s+\d+\s+\d+$/ (the tab-only pattern of the code is a case of it)
IsFormat4(data) ==
    LET f == SplitSpace(data, <<>>, FALSE) IN Len(f) = 3 /\ \A i \in 1..3 : AllDigits(f[i])

\* /^S[123]:[01]$/
IsFormat5(data) ==
    /\ Len(data) = 4
    /\ data[1] = "S" /\ data[2] \in {"1", "2", "3"} /\ data[3] = ":" /\ data[4] \in {"0", "1"}

\* Variant: a value is taken as it is parsed.
Coerce01_raw(val) == parseInt(val)

\* val => parseInt(val) === 0 ? 0 : 1
Coerce01(val) == IF parseInt(val) = 0 THEN 0 ELSE 1
ParseTrimmed(val) == parseInt(Trim(val))
BelowThreshold(v) == IF v < AnalogThreshold THEN 0 ELSE 1

\* Variant: format 3 looks for the pin names only, not for the digits.
parseArduinoData_pinsOnly(data) ==
    IF IsFormat1(data)
    THEN LET sensorValues == MapSeq(Coerce01, SplitComma(data, <<>>))
         IN IF Len(sensorValues) = 3 THEN sensorValues ELSE NoReading
    ELSE IF StartsWith(data, SENSORS_PREFIX)
    THEN LET rest == Trim(SubSeq(data, Len(SENSORS_PREFIX) + 1, Len(data)))
             sensorValues == MapSeq(ParseTrimmed, SplitComma(rest, <<>>))
         IN IF Len(sensorValues) = 3 THEN sensorValues ELSE NoReading
    ELSE IF Includes(data, FIRE_WORD) \/ Includes(data, FLAME_WORD)
    THEN << IF Includes(data, <<"D", "2">>) THEN 0 ELSE 1,
            IF Includes(data, <<"D", "3">>) THEN 0 ELSE 1,
            IF Includes(data, <<"D", "4">>) THEN 0 ELSE 1 >>
    ELSE IF IsFormat4(data)
    THEN LET values == MapSeq(ParseTrimmed, SplitSpace(data, <<>>, FALSE))
         IN IF Len(values) = 3 /\ \A i \in 1..3 : values[i] # NaN
            THEN MapSeq(BelowThreshold, values) ELSE NoReading
    ELSE IF IsFormat5(data)
    THEN LET sensorIndex == DigitVal(data[2])
             sensorValue == DigitVal(data[4])
         IN [i \in 1..3 |-> IF i = sensorIndex THEN sensorValue ELSE 1]
    ELSE NoReading

parseArduinoData(data) ==
    IF IsFormat1(data)
    THEN LET sensorValues == MapSeq(Coerce01, SplitComma(data, <<>>))
         IN IF Len(sensorValues) = 3 THEN sensorValues ELSE NoReading
    ELSE IF StartsWith(data, SENSORS_PREFIX)
    THEN LET rest == Trim(SubSeq(data, Len(SENSORS_PREFIX) + 1, Len(data)))
             sensorValues == MapSeq(ParseTrimmed, SplitComma(rest, <<>>))
         IN IF Len(sensorValues) = 3 THEN sensorValues ELSE NoReading
    ELSE IF Includes(data, FIRE_WORD) \/ Includes(data, FLAME_WORD)
    THEN << IF Includes(data, <<"D", "2">>) \/ Includes(data, <<"1">>) THEN 0 ELSE 1,
            IF Includes(data, <<"D", "3">>) \/ Includes(data, <<"2">>) THEN 0 ELSE 1,
            IF Includes(data, <<"D", "4">>) \/ Includes(data, <<"3">>) THEN 0 ELSE 1 >>
    ELSE IF IsFormat4(data)
    THEN LET values == MapSeq(ParseTrimmed, SplitSpace(data, <<>>, FALSE))
         IN IF Len(values) = 3 /\ \A i \in 1..3 : values[i] # NaN
            THEN MapSeq(BelowThreshold, values) ELSE NoReading
    ELSE IF IsFormat5(data)
    THEN LET sensorIndex == DigitVal(data[2])
             sensorValue == DigitVal(data[4])
         IN [i \in 1..3 |-> IF i = sensorIndex THEN sensorValue ELSE 1]
    ELSE NoReading


(***************************************************************************)
(* State.                                                                  *)
(***************************************************************************)
VARIABLES
    clients,          \* let clients: the sequence of subscribed sockets
    readyState,       \* ws.readyState of every socket: NONE before it connects
    inbox,            \* what each socket has been sent, in order
    sensorData,       \* sensorData.sensor1..3.value
    systemMetrics,    \* fireDetections, waterActivations, activeCameras
    systemLogs,       \* let systemLogs
    published,        \* history: every event given to broadcastToClients
    subscribedAt,     \* history: Len(published) when each socket joined clients
    last,             \* history: the last handler run and what it started from
    steps,            \* history: the number of external events so far
    port,             \* every SerialPort handle created, with its state
    arduinoPort,      \* let arduinoPort: the owned handle, 0 for null
    arduinoConnected, \* let arduinoConnected
    searching,        \* connectToArduino calls awaiting findArduinoPort
    reconnectTimers,  \* pending setTimeout(connectToArduino, 5000), each named
                      \* by the handle whose close event set it
    simulations,      \* running startSimulationMode intervals, each with its
                      \* simulatedSensors and its pending reset timeouts
    device,           \* environment: an Arduino is plugged in
    sessions,         \* the video proxy sessions, one per viewer request
    processUp,        \* the Node process runs: no exception went uncaught
    server,           \* the HTTP server: listening, closing (server.close has
                      \* run), exited (process.exit(0) has run)
    probes            \* every testRTSPConnection call, with its socket and promise

hubVars == <<clients, readyState, inbox, sensorData, systemMetrics, systemLogs,
             published, subscribedAt, last, steps>>
\* The link's variables but arduinoConnected, which the hub context carries.
linkRest == <<port, arduinoPort, searching, reconnectTimers, simulations, device>>
linkVars == <<port, arduinoPort, arduinoConnected, searching, reconnectTimers,
              simulations, device>>
streamVars == <<sessions, processUp, server, probes>>
vars == <<hubVars, linkVars, streamVars>>

Ws == 1..MaxClients
Handles == 1..MaxHandles

InSeq(x, s) == \E i \in 1..Len(s) : s[i] = x
FilterOut(s, x) == SelectSeq(s, LAMBDA y : y # x)
\* Array.prototype.slice(-n)
SliceLast(s, n) == IF Len(s) > n THEN SubSeq(s, Len(s) - n + 1, Len(s)) ELSE s
\* arr[i] of a JavaScript array: undefined past its end
At(arr, i) == IF i \in 1..Len(arr) THEN arr[i] ELSE Undefined
\* Array.prototype.includes(0)
Includes0(arr) == \E i \in 1..Len(arr) : arr[i] = 0

(***************************************************************************)
(* The hub context the handlers read and write, as one record, so that a   *)
(* handler is the composition of the functions it calls.                   *)
(***************************************************************************)
Hub ==
    [clients |-> clients, readyState |-> readyState, inbox |-> inbox,
     sensorData |-> sensorData, systemMetrics |-> systemMetrics,
     systemLogs |-> systemLogs, published |-> published,
     arduinoConnected |-> arduinoConnected]

Commit(h) ==
    /\ clients' = h.clients
    /\ readyState' = h.readyState
    /\ inbox' = h.inbox
    /\ sensorData' = h.sensorData
    /\ systemMetrics' = h.systemMetrics
    /\ systemLogs' = h.systemLogs
    /\ published' = h.published
    /\ arduinoConnected' = h.arduinoConnected

\* The previous run of a handler, kept beside the last one.  data is the
\* line a run of parser.on('data') was given, empty for any other run.
RecordLine(op, values, data) ==
    last' = [op |-> op, values |-> values, data |-> data,
             fd0 |-> systemMetrics.fireDetections, pub0 |-> Len(published),
             clients0 |-> clients,
             prevOp |-> last.op, prevValues |-> last.values, prevFd0 |-> last.fd0]

Record(op, values) ==
    last' = [op |-> op, values |-> values, data |-> <<>>,
             fd0 |-> systemMetrics.fireDetections, pub0 |-> Len(published),
             clients0 |-> clients,
             prevOp |-> last.op, prevValues |-> last.values, prevFd0 |-> last.fd0]

(***************************************************************************)
(* BroadcastHub.                                                           *)
(***************************************************************************)
\* Variant: a publish that also prunes the sockets it finds not open.
broadcastToClients_pruning(h, data) ==
    [h EXCEPT
        !.inbox = [c \in Ws |->
            IF InSeq(c, h.clients) /\ h.readyState[c] = "OPEN"
            THEN Append(h.inbox[c], data) ELSE h.inbox[c]],
        !.clients = SelectSeq(h.clients, LAMBDA c : h.readyState[c] = "OPEN"),
        !.published = Append(h.published, data)]

broadcastToClients(h, data) ==
    [h EXCEPT
        !.inbox = [c \in Ws |->
            IF InSeq(c, h.clients) /\ h.readyState[c] = "OPEN"
            THEN Append(h.inbox[c], data) ELSE h.inbox[c]],
        !.published = Append(h.published, data)]

LogClock(h) == IF h.systemLogs = <<>> THEN 0 ELSE h.systemLogs[Len(h.systemLogs)].n

\* Variant: a full buffer keeps its oldest entries and drops the new one.
addSystemLog_keepOldest(h, message, type) ==
    LET logEntry == [n |-> LogClock(h) + 1, message |-> message, type |-> type]
        pushed == Append(h.systemLogs, logEntry)
        h1 == [h EXCEPT !.systemLogs =
                  IF Len(pushed) > LogCapacity THEN SubSeq(pushed, 1, LogCapacity)
                  ELSE pushed]
    IN broadcastToClients(h1, [type |-> "log_entry", log |-> logEntry])

addSystemLog(h, message, type) ==
    LET logEntry == [n |-> LogClock(h) + 1, message |-> message, type |-> type]
        pushed == Append(h.systemLogs, logEntry)
        h1 == [h EXCEPT !.systemLogs =
                  IF Len(pushed) > LogCapacity THEN SliceLast(pushed, LogCapacity)
                  ELSE pushed]
    IN broadcastToClients(h1, [type |-> "log_entry", log |-> logEntry])

updateSystemMetrics(h) ==
    LET h1 == [h EXCEPT !.systemMetrics.activeCameras =
                  IF Len(h.clients) > 0 THEN 1 ELSE 0]
    IN broadcastToClients(h1, [type |-> "metrics_update",
                               systemMetrics |-> h1.systemMetrics])

(***************************************************************************)
(* AlertEngine.                                                            *)
(***************************************************************************)
SensorLabel(i) ==
    CASE i = 1 -> "Sensor 1 (D2)" [] i = 2 -> "Sensor 2 (D3)" [] i = 3 -> "Sensor 3 (D4)"

\* Array.prototype.join(' & ')
RECURSIVE JoinAmp(_)
JoinAmp(s) ==
    IF s = <<>> THEN ""
    ELSE IF Len(s) = 1 THEN s[1]
    ELSE s[1] \o " & " \o JoinAmp(Tail(s))

\* Variant: the third slot is left out of the tripped slots.
FireSensors_twoSlots(sensorValues) ==
    LET idx == SelectSeq(<<1, 2>>, LAMBDA i : At(sensorValues, i) = 0)
    IN [k \in 1..Len(idx) |-> SensorLabel(idx[k])]

FireSensors(sensorValues) ==
    LET idx == SelectSeq(<<1, 2, 3>>, LAMBDA i : At(sensorValues, i) = 0)
    IN [k \in 1..Len(idx) |-> SensorLabel(idx[k])]

\* Variant with a cooldown left in place: an alert that follows another is dropped.
handleFireDetection_cooldown(h, sensorValues) ==
    IF h.systemMetrics.fireDetections > 0 THEN h ELSE
    LET h1 == [h EXCEPT !.systemMetrics.fireDetections = @ + 1]
        fireSensors == FireSensors(sensorValues)
        location == IF Len(fireSensors) > 0 THEN JoinAmp(fireSensors)
                    ELSE "Unknown Location"
        severity == IF Len(fireSensors) >= 3 THEN "CRITICAL"
                    ELSE IF Len(fireSensors) >= 2 THEN "HIGH" ELSE "MEDIUM"
        h2 == addSystemLog(h1, "FIRE DETECTED at " \o location, "alert")
        h3 == broadcastToClients(h2,
                  [type |-> "fire_alert", location |-> location,
                   severity |-> severity, sensorValues |-> sensorValues,
                   systemMetrics |-> h2.systemMetrics])
    IN updateSystemMetrics(h3)

handleFireDetection(h, sensorValues) ==
    LET h1 == [h EXCEPT !.systemMetrics.fireDetections = @ + 1]
        fireSensors == FireSensors(sensorValues)
        location == IF Len(fireSensors) > 0 THEN JoinAmp(fireSensors)
                    ELSE "Unknown Location"
        severity == IF Len(fireSensors) >= 3 THEN "CRITICAL"
                    ELSE IF Len(fireSensors) >= 2 THEN "HIGH" ELSE "MEDIUM"
        h2 == addSystemLog(h1, "FIRE DETECTED at " \o location, "alert")
        h3 == broadcastToClients(h2,
                  [type |-> "fire_alert", location |-> location,
                   severity |-> severity, sensorValues |-> sensorValues,
                   systemMetrics |-> h2.systemMetrics])
    IN updateSystemMetrics(h3)

\* value || 1
OrOne(v) == IF v \in {0, NaN, Undefined} THEN 1 ELSE v

\* Variant: the alert is raised before the sensor_update is published.
updateSensors_alertFirst(h, sensorValues) ==
    LET h1 == [h EXCEPT !.sensorData = << OrOne(At(sensorValues, 1)),
                                          OrOne(At(sensorValues, 2)),
                                          OrOne(At(sensorValues, 3)) >>]
        fireDetected == Includes0(sensorValues)
        h2 == IF fireDetected THEN handleFireDetection(h1, sensorValues) ELSE h1
    IN broadcastToClients(h2,
           [type |-> "sensor_update", sensorData |-> h2.sensorData,
            fireDetected |-> fireDetected, sensorValues |-> sensorValues])

\* Variant: a fire decision held back while an earlier detection is counted.
updateSensors_cooldown(h, sensorValues) ==
    LET h1 == [h EXCEPT !.sensorData = << OrOne(At(sensorValues, 1)),
                                          OrOne(At(sensorValues, 2)),
                                          OrOne(At(sensorValues, 3)) >>]
        fireDetected == Includes0(sensorValues) /\ h.systemMetrics.fireDetections = 0
        h2 == broadcastToClients(h1,
                  [type |-> "sensor_update", sensorData |-> h1.sensorData,
                   fireDetected |-> fireDetected, sensorValues |-> sensorValues])
    IN IF fireDetected THEN handleFireDetection(h2, sensorValues) ELSE h2

updateSensors(h, sensorValues) ==
    LET h1 == [h EXCEPT !.sensorData = << OrOne(At(sensorValues, 1)),
                                          OrOne(At(sensorValues, 2)),
                                          OrOne(At(sensorValues, 3)) >>]
        fireDetected == Includes0(sensorValues)
        h2 == broadcastToClients(h1,
                  [type |-> "sensor_update", sensorData |-> h1.sensorData,
                   fireDetected |-> fireDetected, sensorValues |-> sensorValues])
    IN IF fireDetected THEN handleFireDetection(h2, sensorValues) ELSE h2


(***************************************************************************)
(* WebSocket handlers.                                                     *)
(***************************************************************************)
\* ws.send(data) to one socket: ws drops a frame sent on a socket that is
\* not OPEN.
Send(h, ws, data) ==
    IF h.readyState[ws] = "OPEN" THEN [h EXCEPT !.inbox[ws] = Append(@, data)] ELSE h

CameraTypes == {"rtsp", "wifi", "bluetooth", "webcam"}

StreamUrl(cameraType) ==
    CASE cameraType = "rtsp" -> "/rtsp-proxy"
      [] cameraType = "wifi" -> "/wifi-camera"
      [] cameraType = "bluetooth" -> "/bluetooth-camera"
      [] OTHER -> "/webcam-stream"

\* Variant: the socket joins the list before the connect is logged.
OnConnection_pushFirst(h, ws) ==
    LET h1 == [h EXCEPT !.clients = Append(@, ws)]
        h2 == addSystemLog(h1, "New WebSocket client connected", "info")
        clientId == Len(h2.clients)
    IN Send(h2, ws,
            [type |-> "connection", clientId |-> clientId,
             arduinoConnected |-> h2.arduinoConnected,
             sensorData |-> h2.sensorData, systemMetrics |-> h2.systemMetrics,
             logs |-> SliceLast(h2.systemLogs, SnapshotLogs)])

\* wss.on('connection')
OnConnection(h, ws) ==
    LET h1 == addSystemLog(h, "New WebSocket client connected", "info")
        h2 == [h1 EXCEPT !.clients = Append(@, ws)]
        clientId == Len(h2.clients)
    IN Send(h2, ws,
            [type |-> "connection", clientId |-> clientId,
             arduinoConnected |-> h2.arduinoConnected,
             sensorData |-> h2.sensorData, systemMetrics |-> h2.systemMetrics,
             logs |-> SliceLast(h2.systemLogs, SnapshotLogs)])

WsConnect(ws) ==
    /\ steps < MaxSteps
    /\ readyState[ws] = "NONE"
    /\ \A w \in Ws : w < ws => readyState[w] # "NONE"
    /\ Commit(OnConnection([Hub EXCEPT !.readyState[ws] = "OPEN"], ws))
    /\ subscribedAt' = [subscribedAt EXCEPT ![ws] = Len(published')]
    /\ Record("connection", NoReading)
    /\ steps' = steps + 1
    /\ UNCHANGED <<linkRest, streamVars>>

\* The commands of ws.on('message') but reconnect_arduino (WsReconnect below).
\* "malformed" is a message JSON.parse rejects; "unknown" one whose command
\* no case names (test_rtsp of src/server.js only starts a probe whose result
\* is dropped).  test_arduino writes 'TEST' to the owned handle when the link
\* is up, which changes nothing here: a SerialPort that is not open queues
\* the write until it opens.
HubCommands == {"simulate_fire", "activate_water", "connect_camera",
                "test_arduino", "unknown", "malformed"}

\* Variant: a message no case handles is answered with an error event.
OnMessage_replying(h, ws, command, cameraType) ==
    CASE command = "simulate_fire" ->
            handleFireDetection(updateSensors(h, <<0, 1, 1>>), <<0, 1, 1>>)
      [] command = "activate_water" ->
            LET h1 == updateSystemMetrics(
                          [h EXCEPT !.systemMetrics.waterActivations = @ + 1])
                h2 == addSystemLog(h1, "Water system activated", "water")
            IN broadcastToClients(h2, [type |-> "water_activated",
                                       systemMetrics |-> h2.systemMetrics])
      [] command = "connect_camera" ->
            LET h1 == addSystemLog(h, "Camera connection requested: " \o cameraType,
                                   "info")
            IN Send(h1, ws, [type |-> "camera_url", cameraType |-> cameraType,
                             streamUrl |-> StreamUrl(cameraType)])
      [] command = "test_arduino" -> h
      [] OTHER -> Send(h, ws, [type |-> "error", message |-> "Unknown command"])

OnMessage(h, ws, command, cameraType) ==
    CASE command = "simulate_fire" ->
            handleFireDetection(updateSensors(h, <<0, 1, 1>>), <<0, 1, 1>>)
      [] command = "activate_water" ->
            LET h1 == updateSystemMetrics(
                          [h EXCEPT !.systemMetrics.waterActivations = @ + 1])
                h2 == addSystemLog(h1, "Water system activated", "water")
            IN broadcastToClients(h2, [type |-> "water_activated",
                                       systemMetrics |-> h2.systemMetrics])
      [] command = "connect_camera" ->
            LET h1 == addSystemLog(h, "Camera connection requested: " \o cameraType,
                                   "info")
            IN Send(h1, ws, [type |-> "camera_url", cameraType |-> cameraType,
                             streamUrl |-> StreamUrl(cameraType)])
      [] OTHER -> h

WsMessage(ws, command, cameraType) ==
    /\ steps < MaxSteps
    /\ readyState[ws] = "OPEN"
    /\ command = "connect_camera" \/ cameraType = "webcam"
    /\ Commit(OnMessage(Hub, ws, command, cameraType))
    /\ Record(command, IF command = "simulate_fire" THEN <<0, 1, 1>> ELSE NoReading)
    /\ steps' = steps + 1
    /\ UNCHANGED <<subscribedAt, linkRest, streamVars>>

\* The peer starts the closing handshake, or its connection drops: the
\* socket leaves OPEN; no handler of the server runs yet.
WsPeerClosing(ws) ==
    /\ readyState[ws] = "OPEN"
    /\ readyState' = [readyState EXCEPT ![ws] = "CLOSING"]
    /\ UNCHANGED <<clients, inbox, sensorData, systemMetrics, systemLogs, published,
                   subscribedAt, last, steps, linkVars, streamVars>>

\* Variant: a close handler that keeps the socket in the list.
OnClose_keeping(h, ws) == h

\* ws.on('close')
OnClose(h, ws) == [h EXCEPT !.clients = FilterOut(@, ws)]

\* ws emits 'close' once the socket is closed: readyState is CLOSED when the
\* handler runs.
WsClose(ws) ==
    /\ readyState[ws] \in {"OPEN", "CLOSING"}
    /\ Commit(OnClose([Hub EXCEPT !.readyState[ws] = "CLOSED"], ws))
    /\ UNCHANGED <<subscribedAt, last, steps, linkRest, streamVars>>

(***************************************************************************)
(* Readings from the link, the manual trigger, the metrics interval.       *)
(***************************************************************************)
Chars(n) ==
    CASE n = 1 -> <<"0", ",", "1", ",", "1">>
      [] n = 2 -> <<"1", ",", "1", ",", "1">>
      [] n = 3 -> <<"S", "2", ":", "0">>
      [] n = 4 -> <<"g", "a", "r", "b", "a", "g", "e">>
      [] n = 5 -> <<" ", "0", ",", "0", ",", "1", "\r">>
      [] n = 6 -> <<"S", "E", "N", "S", "O", "R", "S", ":", "7", ",", "0", ",", "1">>
      [] n = 7 -> <<"F", "I", "R", "E", " ", "1", "2", "3">>

HubLines == {Chars(n) : n \in 1..7}

\* Variant: a line that gives no reading is taken as an all-clear reading.
OnData_defaulting(h, data) ==
    LET trimmedData == Trim(data)
        sensorValues == parseArduinoData(trimmedData)
    IN IF trimmedData = <<>> THEN h
       ELSE IF sensorValues = NoReading THEN updateSensors(h, <<1, 1, 1>>)
       ELSE updateSensors(h, sensorValues)

\* Variant: a single-sensor line changes its slot of the reading published
\* last and keeps the other two.
OnData_merging(h, data) ==
    LET trimmedData == Trim(data)
        sensorValues == parseArduinoData(trimmedData)
        updates == SelectSeq(h.published, LAMBDA e : e.type = "sensor_update")
        before == IF updates = <<>> THEN <<1, 1, 1>>
                  ELSE updates[Len(updates)].sensorValues
    IN IF trimmedData = <<>> \/ sensorValues = NoReading THEN h
       ELSE IF IsFormat5(trimmedData) /\ Len(before) = 3
       THEN updateSensors(h, [i \in 1..3 |->
                IF i = DigitVal(trimmedData[2]) THEN sensorValues[i] ELSE before[i]])
       ELSE updateSensors(h, sensorValues)

\* parser.on('data')
OnData(h, data) ==
    LET trimmedData == Trim(data)
        sensorValues == parseArduinoData(trimmedData)
    IN IF trimmedData = <<>> \/ sensorValues = NoReading THEN h
       ELSE updateSensors(h, sensorValues)

ParserData(data) ==
    /\ steps < MaxSteps
    /\ \E p \in Handles : port[p] = "open"
    /\ Commit(OnData(Hub, data))
    /\ RecordLine("data", parseArduinoData(Trim(data)), data)
    /\ steps' = steps + 1
    /\ UNCHANGED <<subscribedAt, linkRest, streamVars>>

\* The sensor field of a POST /api/simulate-fire body; 0 stands for a body
\* without one.
ApiSensors == {0, 2, 5, -1}

\* sensorValues = [1, 1, 1]; sensorValues[sensor - 1] = 0: an index past the
\* end grows the array, a negative one adds a property and no element.
ApiSensorValues(sensor) ==
    LET k == IF sensor = 0 THEN 1 ELSE sensor
    IN IF k < 1 THEN <<1, 1, 1>>
       ELSE [i \in 1..(IF k > 3 THEN k ELSE 3) |->
                IF i = k THEN 0 ELSE IF i <= 3 THEN 1 ELSE Undefined]

\* app.post('/api/simulate-fire')
ApiSimulateFire(sensor) ==
    /\ steps < MaxSteps
    /\ LET sensorValues == ApiSensorValues(sensor)
       IN /\ Commit(handleFireDetection(updateSensors(Hub, sensorValues), sensorValues))
          /\ Record("api_simulate_fire", sensorValues)
    /\ steps' = steps + 1
    /\ UNCHANGED <<subscribedAt, linkRest, streamVars>>

\* setInterval(updateSystemMetrics, 30000)
MetricsTick ==
    /\ steps < MaxSteps
    /\ Commit(updateSystemMetrics(Hub))
    /\ Record("metrics", NoReading)
    /\ steps' = steps + 1
    /\ UNCHANGED <<subscribedAt, linkRest, streamVars>>

(***************************************************************************)
(* The hub with a connected link: subscribers come and go, send commands,  *)
(* the link delivers lines.                                                *)
(***************************************************************************)
BootLogs ==
    << [n |-> 1, message |-> "APULA Fire Command System initialized - NO FIRE COOLDOWN",
        type |-> "info"],
       [n |-> 2, message |-> "All camera modes enabled: RTSP, Wi-Fi, Bluetooth, Webcam",
        type |-> "info"],
       [n |-> 3, message |-> "Server started - All camera modes enabled", type |-> "info"] >>

\* The log of a server that earlier subscribers, since gone, have connected to.
LogsAfter(base, k) ==
    base \o [i \in 1..k |-> [n |-> Len(base) + i,
                             message |-> "New WebSocket client connected",
                             type |-> "info"]]

ConnectedLogs ==
    BootLogs \o
    << [n |-> 4, message |-> "Connecting to Arduino", type |-> "info"],
       [n |-> 5, message |-> "Arduino connected successfully", type |-> "safe"] >>

HubInit ==
    /\ clients = <<>>
    /\ readyState = [w \in Ws |-> "NONE"]
    /\ inbox = [w \in Ws |-> <<>>]
    /\ sensorData = <<1, 1, 1>>
    /\ systemMetrics = [fireDetections |-> 0, waterActivations |-> 0, activeCameras |-> 0]
    /\ systemLogs \in {LogsAfter(ConnectedLogs, 0), LogsAfter(ConnectedLogs, PriorConnects)}
    /\ published = <<>>
    /\ subscribedAt = [w \in Ws |-> 0]
    /\ last = [op |-> "init", values |-> NoReading, data |-> <<>>, fd0 |-> 0,
               pub0 |-> 0,
               clients0 |-> <<>>,
               prevOp |-> "init", prevValues |-> NoReading, prevFd0 |-> 0]
    /\ steps = 0
    /\ port = [p \in Handles |-> IF p = 1 THEN "open" ELSE "none"]
    /\ arduinoPort = 1
    /\ arduinoConnected = TRUE
    /\ searching = 0
    /\ reconnectTimers = {}
    /\ simulations = <<>>
    /\ device = TRUE
    /\ sessions = <<>>
    /\ processUp = TRUE
    /\ server = "listening"
    /\ probes = <<>>

HubNext ==
    \/ \E ws \in Ws : WsConnect(ws)
    \/ \E ws \in Ws, command \in HubCommands, cameraType \in CameraTypes :
          WsMessage(ws, command, cameraType)
    \/ \E ws \in Ws : WsPeerClosing(ws)
    \/ \E ws \in Ws : WsClose(ws)
    \/ \E data \in HubLines : ParserData(data)
    \/ \E sensor \in ApiSensors : ApiSimulateFire(sensor)
    \/ MetricsTick

HubSpec == HubInit /\ [][HubNext]_vars


(***************************************************************************)
(* LinkManager.  A SerialPort handle is none (not created), opening, open, *)
(* closing (close requested or the device lost, 'close' not yet emitted)   *)
(* or closed.  One device path: the operating system lets a handle open    *)
(* only while no other handle holds the device.                            *)
(***************************************************************************)
Link ==
    [h |-> Hub, port |-> port, arduinoPort |-> arduinoPort, searching |-> searching,
     reconnectTimers |-> reconnectTimers, simulations |-> simulations]

CommitLink(l) ==
    /\ Commit(l.h)
    /\ port' = l.port
    /\ arduinoPort' = l.arduinoPort
    /\ searching' = l.searching
    /\ reconnectTimers' = l.reconnectTimers
    /\ simulations' = l.simulations

FreshHandle(l) == CHOOSE p \in Handles :
                     l.port[p] = "none" /\ \A q \in Handles : q < p => l.port[q] # "none"

\* startSimulationMode(): one more interval, with its own simulatedSensors.
startSimulationMode(l) ==
    [l EXCEPT !.simulations = Append(@, [simulatedSensors |-> <<1, 1, 1>>,
                                         resets |-> <<>>])]

\* Variant: an error handler that also sets the retry timer.
OnPortError_retrying(l, p, message) ==
    [l EXCEPT !.h = [addSystemLog(l.h, "Arduino error: " \o message, "warning")
                        EXCEPT !.arduinoConnected = FALSE],
              !.reconnectTimers = @ \cup {p}]

\* arduinoPort.on('error')
OnPortError(l, p, message) ==
    [l EXCEPT !.h = [addSystemLog(l.h, "Arduino error: " \o message, "warning")
                        EXCEPT !.arduinoConnected = FALSE]]

\* SerialPort.close(): a handle that is open starts closing; on any other
\* the call only emits 'error' (Port is not open) on that handle.
ClosePort(l, p) ==
    IF l.port[p] = "open" THEN [l EXCEPT !.port[p] = "closing"]
    ELSE OnPortError(l, p, "Port is not open")

\* Variant: the close handler sets no retry timer.
OnPortClose_noRetry(l, p) ==
    LET h1 == [addSystemLog(l.h, "Arduino disconnected", "warning")
                  EXCEPT !.arduinoConnected = FALSE]
    IN [l EXCEPT !.h = broadcastToClients(h1, [type |-> "arduino_status",
                                               status |-> "disconnected"])]

\* arduinoPort.on('close')
OnPortClose(l, p) ==
    LET h1 == [addSystemLog(l.h, "Arduino disconnected", "warning")
                  EXCEPT !.arduinoConnected = FALSE]
    IN [l EXCEPT !.h = broadcastToClients(h1, [type |-> "arduino_status",
                                               status |-> "disconnected"]),
                 !.reconnectTimers = @ \cup {p}]

\* arduinoPort.on('open').  Its one-second timer writes the handshake to the
\* owned handle if that is open, which changes nothing here.
OnPortOpen(l, p) ==
    LET h1 == [addSystemLog(l.h, "Arduino connected successfully", "safe")
                  EXCEPT !.arduinoConnected = TRUE]
    IN [l EXCEPT !.h = broadcastToClients(h1, [type |-> "arduino_status",
                                               status |-> "connected",
                                               sensorData |-> h1.sensorData])]

\* connectToArduino() after its await findArduinoPort(): found says whether a
\* port path came back.
connectToArduino(l, found) ==
    IF ~found
    THEN startSimulationMode(
             [l EXCEPT !.h = addSystemLog(l.h, "No Arduino found - running in simulation mode",
                                          "warning")])
    ELSE LET l1 == [l EXCEPT !.h = addSystemLog(l.h, "Connecting to Arduino", "info")]
             l2 == IF l1.arduinoPort # 0 THEN ClosePort(l1, l1.arduinoPort) ELSE l1
             new == FreshHandle(l2)
         IN [l2 EXCEPT !.arduinoPort = new, !.port[new] = "opening"]

\* findArduinoPort() resolves and connectToArduino goes on.
ListDone ==
    /\ searching > 0
    /\ device => \E p \in Handles : port[p] = "none"
    /\ CommitLink(connectToArduino([Link EXCEPT !.searching = @ - 1], device))
    /\ Record("list_done", NoReading)
    /\ UNCHANGED <<subscribedAt, steps, device, streamVars>>

HoldsDevice(p) == port[p] \in {"open", "closing"}

PortOpen(p) ==
    /\ port[p] = "opening"
    /\ device
    /\ \A q \in Handles : ~HoldsDevice(q)
    /\ CommitLink(OnPortOpen([Link EXCEPT !.port[p] = "open"], p))
    /\ Record("port_open", NoReading)
    /\ UNCHANGED <<subscribedAt, steps, device, streamVars>>

\* The open fails (device busy or gone): 'error' is emitted, 'close' is not.
PortOpenFail(p) ==
    /\ port[p] = "opening"
    /\ CommitLink(OnPortError([Link EXCEPT !.port[p] = "closed"], p, "open failed"))
    /\ Record("port_open_fail", NoReading)
    /\ UNCHANGED <<subscribedAt, steps, device, streamVars>>

\* A transport error on an open handle.
PortError(p) ==
    /\ steps < MaxLinkSteps
    /\ port[p] = "open"
    /\ CommitLink(OnPortError(Link, p, "transport"))
    /\ Record("port_error", NoReading)
    /\ steps' = steps + 1
    /\ UNCHANGED <<subscribedAt, device, streamVars>>

\* 'close' is emitted by a handle whose close has completed.
PortClosed(p) ==
    /\ port[p] = "closing"
    /\ CommitLink(OnPortClose([Link EXCEPT !.port[p] = "closed"], p))
    /\ Record("port_close", NoReading)
    /\ UNCHANGED <<subscribedAt, steps, device, streamVars>>

\* setTimeout(() => connectToArduino(), 5000) fires: the call runs up to its
\* await.
ReconnectTimer(p) ==
    /\ p \in reconnectTimers
    /\ reconnectTimers' = reconnectTimers \ {p}
    /\ searching' = searching + 1
    /\ Record("reconnect_timer", <<p>>)
    /\ UNCHANGED <<clients, readyState, inbox, sensorData, systemMetrics, systemLogs,
                   published, subscribedAt, steps, port, arduinoPort, arduinoConnected,
                   simulations, device, streamVars>>

\* case 'reconnect_arduino'
WsReconnect(ws) ==
    /\ steps < MaxLinkSteps
    /\ readyState[ws] = "OPEN"
    /\ searching' = searching + 1
    /\ Record("reconnect_arduino", NoReading)
    /\ steps' = steps + 1
    /\ UNCHANGED <<clients, readyState, inbox, sensorData, systemMetrics, systemLogs,
                   published, subscribedAt, port, arduinoPort, arduinoConnected,
                   reconnectTimers, simulations, device, streamVars>>

\* The device is unplugged: an open handle is closed by the driver.
DeviceUnplug ==
    /\ steps < MaxLinkSteps
    /\ device
    /\ device' = FALSE
    /\ port' = [p \in Handles |-> IF port[p] = "open" THEN "closing" ELSE port[p]]
    /\ steps' = steps + 1
    /\ UNCHANGED <<clients, readyState, inbox, sensorData, systemMetrics, systemLogs,
                   published, subscribedAt, last, arduinoPort, arduinoConnected,
                   searching, reconnectTimers, simulations, streamVars>>

DevicePlug ==
    /\ steps < MaxLinkSteps
    /\ ~device
    /\ device' = TRUE
    /\ steps' = steps + 1
    /\ UNCHANGED <<clients, readyState, inbox, sensorData, systemMetrics, systemLogs,
                   published, subscribedAt, last, port, arduinoPort, arduinoConnected,
                   searching, reconnectTimers, simulations, streamVars>>

(***************************************************************************)
(* SimulationGenerator: the interval callback of startSimulationMode and   *)
(* its reset timeout.  Math.random is a choice of the environment.         *)
(***************************************************************************)
\* The branch taken with probability 0.1: fireSensor (1..3 here) is driven
\* to 0, the reading goes through updateSensors and then handleFireDetection,
\* and a reset of that slot is set for three seconds later.
SimFire(l, i, fireSensor) ==
    LET simulatedSensors == [k \in 1..3 |-> IF k = fireSensor THEN 0 ELSE 1]
    IN [l EXCEPT
          !.simulations[i] = [simulatedSensors |-> simulatedSensors,
                              resets |-> Append(@.resets, fireSensor)],
          !.h = handleFireDetection(updateSensors(l.h, simulatedSensors),
                                    simulatedSensors)]

\* The other branch: every slot is redrawn, 0 with probability 0.05.
SimNormal(l, i, drawn) ==
    [l EXCEPT !.simulations[i].simulatedSensors = drawn,
              !.h = updateSensors(l.h, drawn)]

\* The reset timeout: simulatedSensors[fireSensor] = 1, then updateSensors.
SimReset(l, i, j) ==
    LET fireSensor == l.simulations[i].resets[j]
        simulatedSensors == [l.simulations[i].simulatedSensors EXCEPT ![fireSensor] = 1]
    IN [l EXCEPT
          !.simulations[i] =
              [simulatedSensors |-> simulatedSensors,
               resets |-> SubSeq(@.resets, 1, j - 1) \o
                          SubSeq(@.resets, j + 1, Len(@.resets))],
          !.h = updateSensors(l.h, simulatedSensors)]

FireSlots == {1, 3}
NormalDraws == {<<1, 1, 1>>, <<1, 0, 1>>}

SimFireTick(i, fireSensor) ==
    /\ steps < MaxLinkSteps
    /\ i \in 1..Len(simulations)
    /\ CommitLink(SimFire(Link, i, fireSensor))
    /\ Record("sim_fire", [k \in 1..3 |-> IF k = fireSensor THEN 0 ELSE 1])
    /\ steps' = steps + 1
    /\ UNCHANGED <<subscribedAt, device, streamVars>>

SimNormalTick(i, drawn) ==
    /\ steps < MaxLinkSteps
    /\ i \in 1..Len(simulations)
    /\ CommitLink(SimNormal(Link, i, drawn))
    /\ Record("sim_normal", drawn)
    /\ steps' = steps + 1
    /\ UNCHANGED <<subscribedAt, device, streamVars>>

SimResetTimer(i, j) ==
    /\ i \in 1..Len(simulations)
    /\ j \in 1..Len(simulations[i].resets)
    /\ CommitLink(SimReset(Link, i, j))
    /\ Record("sim_reset", simulations'[i].simulatedSensors)
    /\ UNCHANGED <<subscribedAt, steps, device, streamVars>>

(***************************************************************************)
(* The link lifecycle: the server has just started (connectToArduino is at *)
(* its await), one subscriber is connected.                                *)
(***************************************************************************)
LinkInit ==
    LET h0 == [clients |-> <<>>,
               readyState |-> [w \in Ws |-> IF w = 1 THEN "OPEN" ELSE "NONE"],
               inbox |-> [w \in Ws |-> <<>>],
               sensorData |-> <<1, 1, 1>>,
               systemMetrics |-> [fireDetections |-> 0, waterActivations |-> 0,
                                  activeCameras |-> 0],
               systemLogs |-> BootLogs, published |-> <<>>,
               arduinoConnected |-> FALSE]
        h == OnConnection(h0, 1)
    IN /\ clients = h.clients
       /\ readyState = h.readyState
       /\ inbox = h.inbox
       /\ sensorData = h.sensorData
       /\ systemMetrics = h.systemMetrics
       /\ systemLogs = h.systemLogs
       /\ published = h.published
       /\ subscribedAt = [w \in Ws |-> IF w = 1 THEN Len(h.published) ELSE 0]
       /\ last = [op |-> "connection", values |-> NoReading, data |-> <<>>, fd0 |-> 0,
                  pub0 |-> 0,
                  clients0 |-> <<>>,
                  prevOp |-> "init", prevValues |-> NoReading, prevFd0 |-> 0]
       /\ steps = 0
       /\ port = [p \in Handles |-> "none"]
       /\ arduinoPort = 0
       /\ arduinoConnected = FALSE
       /\ searching = 1
       /\ reconnectTimers = {}
       /\ simulations = <<>>
       /\ device \in BOOLEAN
       /\ sessions = <<>>
       /\ processUp = TRUE
       /\ server = "listening"
       /\ probes = <<>>

LinkNext ==
    \/ ListDone
    \/ \E p \in Handles : PortOpen(p)
    \/ \E p \in Handles : PortOpenFail(p)
    \/ \E p \in Handles : PortError(p)
    \/ \E p \in Handles : PortClosed(p)
    \/ \E p \in Handles : ReconnectTimer(p)
    \/ \E ws \in Ws : WsReconnect(ws)
    \/ DeviceUnplug
    \/ DevicePlug
    \/ \E i \in 1..MaxHandles + MaxLinkSteps, fireSensor \in FireSlots :
          SimFireTick(i, fireSensor)
    \/ \E i \in 1..MaxHandles + MaxLinkSteps, drawn \in NormalDraws :
          SimNormalTick(i, drawn)
    \/ \E i \in 1..MaxHandles + MaxLinkSteps, j \in 1..MaxLinkSteps : SimResetTimer(i, j)

\* Node runs a timer that is due.
LinkFairness == \A p \in Handles : WF_vars(ReconnectTimer(p))

LinkSpec == LinkInit /\ [][LinkNext]_vars /\ LinkFairness

(***************************************************************************)
(* StreamProxy.  A session is one viewer request on a camera route.  rev   *)
(* names the revision that serves it: 1 is src/server.js, 2 is             *)
(* src/unnamed/part_000.  The ffmpeg binary and, in revision 1, the canvas *)
(* module are taken as installed, and the network-camera URL as one that   *)
(* new URL() accepts.                                                      *)
(*   gone         the viewer's connection is closed                        *)
(*   probe        testRTSPConnection is pending                            *)
(*   child        the ffmpeg child: none, running, killed (signalled, not  *)
(*                yet exited), exited                                      *)
(*   killOnClose  req.on('close') is registered with the kill of the child *)
(*   attempts     the upstream http requests in flight, each with its      *)
(*                index in cameraUrls, pending or streaming its body       *)
(*   timers       pending setTimeout calls of the synthetic frame loop     *)
(*   headersSent  res.writeHead has run                                    *)
(*   ended        res.end has run                                          *)
(*   liveAtClose  history: the child was running when the viewer left      *)
(*   late         history: a frame, a chunk or a timer was produced for    *)
(*                the viewer after it had gone                             *)
(***************************************************************************)
Routes == {"rtsp", "wifi", "bluetooth", "webcam"}
Revisions == {1, 2}
Sessions == 1..MaxSessions

NewSession(route, rev) ==
    [route |-> route, rev |-> rev, gone |-> FALSE, probe |-> FALSE,
     child |-> "none", killOnClose |-> FALSE, attempts |-> <<>>, timers |-> 0,
     headersSent |-> FALSE, ended |-> FALSE, liveAtClose |-> FALSE, late |-> FALSE]

\* res.write, or a setTimeout for the next frame: it does not throw on a
\* closed connection, it works for a viewer that may be gone.
Late(s) == IF s.gone THEN [s EXCEPT !.late = TRUE] ELSE s

RemoveAt(seq, a) == [i \in 1..Len(seq) - 1 |-> IF i < a THEN seq[i] ELSE seq[i + 1]]

\* Revision 1: sendFrame, the timer callback, writes a frame and sets the
\* next timer; nothing in it looks at the connection.
sendFrame(s) == Late(s)

\* Revision 1: sendTestPattern calls sendFrame once.
sendTestPattern(s) == sendFrame([s EXCEPT !.timers = @ + 1])

\* Revision 2: sendNextFrame stops only once res.end has run.
sendNextFrame(s) ==
    IF s.ended THEN [s EXCEPT !.timers = @ - 1] ELSE Late(s)

\* Revision 2: sendTestPattern.  res.writeHead throws when the headers are
\* sent already; otherwise the frame loop starts and the last statement,
\* req.on(...), throws a ReferenceError, req being no variable in scope.
sendTestPattern_rev2(s) ==
    IF s.headersSent THEN [s |-> s, thrown |-> TRUE]
    ELSE [s |-> IF s.ended THEN [s EXCEPT !.headersSent = TRUE]
                ELSE Late([s EXCEPT !.headersSent = TRUE, !.timers = @ + 1]),
          thrown |-> TRUE]

\* Variant: a close listener that leaves the child alone.
OnReqClose_idle(s) == s

\* req.on('close'): ffmpeg.kill('SIGKILL'), where the route registered it.
OnReqClose(s) ==
    IF s.killOnClose /\ s.child = "running" THEN [s EXCEPT !.child = "killed"] ELSE s

\* ffmpeg.on('close'): res.end()
OnChildClose(s) == [s EXCEPT !.ended = TRUE]

\* GET /rtsp-proxy, revision 1
rtspProxy(s) ==
    [s EXCEPT !.headersSent = TRUE, !.child = "running", !.killOnClose = TRUE]

\* GET /rtsp-proxy, revision 2: the probe first
rtspProxy_rev2(s) == [s EXCEPT !.probe = TRUE]

\* The continuation of the probe, with its .catch: thrown says that the
\* promise chain ends rejected with nothing to handle it.
rtspProbed_rev2(s, isReachable) ==
    IF isReachable
    THEN [s |-> [s EXCEPT !.probe = FALSE, !.headersSent = TRUE,
                          !.child = "running", !.killOnClose = TRUE],
          thrown |-> FALSE]
    ELSE LET fallback == sendTestPattern_rev2([s EXCEPT !.probe = FALSE])
         IN IF fallback.thrown THEN sendTestPattern_rev2(fallback.s) ELSE fallback

\* const proxyMjpeg = (urlIndex = 0) => ...
proxyMjpeg(s, urlIndex) ==
    IF urlIndex >= UrlCount THEN sendTestPattern(s)
    ELSE [s EXCEPT !.attempts = Append(@, [url |-> urlIndex, st |-> "pending"])]

\* GET /wifi-camera, revision 1
wifiCamera(s) == proxyMjpeg([s EXCEPT !.headersSent = TRUE], 0)

\* GET /bluetooth-camera, revision 1
bluetoothCamera(s) == sendTestPattern([s EXCEPT !.headersSent = TRUE])

\* GET /wifi-camera and GET /bluetooth-camera, revision 2: the exception of
\* sendTestPattern reaches Express, which, the headers being sent, destroys
\* the viewer's socket.
syntheticCamera_rev2(s) ==
    LET r == sendTestPattern_rev2(s)
    IN IF r.thrown THEN [r.s EXCEPT !.gone = TRUE] ELSE r.s

\* GET /webcam-stream, both revisions
webcamStream(s) ==
    [s EXCEPT !.headersSent = TRUE, !.child = "running", !.killOnClose = TRUE]

RequestLog(route) ==
    CASE route = "rtsp" -> "RTSP stream requested"
      [] route = "wifi" -> "Wi-Fi camera requested"
      [] route = "bluetooth" -> "Bluetooth camera simulation started"
      [] route = "webcam" -> "Webcam stream started"

\* A viewer requests a stream.  known: the URL of a network camera is one
\* of the test endpoints, whose probe resolves before any other event.
StreamRequest(route, rev, known) ==
    /\ processUp
    /\ Len(sessions) < MaxSessions
    /\ \A k \in DOMAIN sessions : sessions[k].rev = rev
    /\ LET s == NewSession(route, rev)
           opened ==
               CASE route = "rtsp" /\ rev = 1 -> rtspProxy(s)
                 [] route = "rtsp" /\ rev = 2 ->
                      IF known THEN rtspProbed_rev2(rtspProxy_rev2(s), TRUE).s
                      ELSE rtspProxy_rev2(s)
                 [] route = "wifi" /\ rev = 1 -> wifiCamera(s)
                 [] route = "bluetooth" /\ rev = 1 -> bluetoothCamera(s)
                 [] route \in {"wifi", "bluetooth"} /\ rev = 2 -> syntheticCamera_rev2(s)
                 [] route = "webcam" -> webcamStream(s)
       IN /\ sessions' = Append(sessions, opened)
          /\ Commit(addSystemLog(Hub, RequestLog(route), "info"))
    /\ UNCHANGED <<subscribedAt, last, steps, linkRest, processUp, server, probes>>

\* testRTSPConnection resolves.  crashes: the runtime ends the process on an
\* unhandled rejection (Node 15 and later) or only warns (before).
ProbeDone(k, isReachable, crashes) ==
    /\ processUp
    /\ k \in DOMAIN sessions
    /\ sessions[k].probe
    /\ LET r == rtspProbed_rev2(sessions[k], isReachable)
       IN /\ sessions' = [sessions EXCEPT ![k] = r.s]
          /\ processUp' = ~(r.thrown /\ crashes)
    /\ UNCHANGED <<hubVars, linkVars, server, probes>>

\* The viewer closes its connection: req emits 'close'.
ViewerClose(k) ==
    /\ processUp
    /\ k \in DOMAIN sessions
    /\ ~sessions[k].gone
    /\ LET s == sessions[k]
       IN sessions' = [sessions EXCEPT ![k] =
              OnReqClose([s EXCEPT !.gone = TRUE,
                                   !.liveAtClose = (s.child = "running")])]
    /\ UNCHANGED <<hubVars, linkVars, processUp, server, probes>>

\* The child is gone; its 'close' handler runs if the server still does.
ChildExits(k) ==
    sessions' = [sessions EXCEPT ![k] =
        IF processUp THEN OnChildClose([@ EXCEPT !.child = "exited"])
        ELSE [@ EXCEPT !.child = "exited"]]

\* ffmpeg exits by itself: the camera stopped, the device cannot be opened.
ChildExit(k) ==
    /\ k \in DOMAIN sessions
    /\ sessions[k].child = "running"
    /\ ChildExits(k)
    /\ UNCHANGED <<hubVars, linkVars, processUp, server, probes>>

\* The operating system ends a signalled child.
ChildKilled(k) ==
    /\ k \in DOMAIN sessions
    /\ sessions[k].child = "killed"
    /\ ChildExits(k)
    /\ UNCHANGED <<hubVars, linkVars, processUp, server, probes>>

\* ffmpeg.stdout.on('data'): one frame part written to the response
ChildStdout(k) ==
    /\ processUp
    /\ k \in DOMAIN sessions
    /\ sessions[k].child = "running"
    /\ sessions' = [sessions EXCEPT ![k] = Late(@)]
    /\ UNCHANGED <<hubVars, linkVars, processUp, server, probes>>

\* ffmpeg.stderr.on('data').  The network-camera route logs the chunk.  The
\* local-capture route of revision 1 starts a synthetic frame loop at every
\* chunk; that of revision 2 signals the child and calls sendTestPattern,
\* whose exception nothing catches.
ChildStderr(k) ==
    /\ processUp
    /\ k \in DOMAIN sessions
    /\ sessions[k].child = "running"
    /\ LET s == sessions[k]
       IN CASE s.route = "rtsp" -> UNCHANGED <<sessions, processUp>>
            [] s.route = "webcam" /\ s.rev = 1 ->
                 /\ Len(s.attempts) + s.timers < MaxProducers
                 /\ sessions' = [sessions EXCEPT ![k] = sendTestPattern(s)]
                 /\ UNCHANGED processUp
            [] s.route = "webcam" /\ s.rev = 2 ->
                 LET r == sendTestPattern_rev2([s EXCEPT !.child = "killed"])
                 IN /\ sessions' = [sessions EXCEPT ![k] = r.s]
                    /\ processUp' = ~r.thrown
    /\ UNCHANGED <<hubVars, linkVars, server, probes>>

\* The upstream camera answers: http.request's callback.
UpstreamResponse(k, a, statusOk) ==
    /\ processUp
    /\ k \in DOMAIN sessions
    /\ a \in DOMAIN sessions[k].attempts
    /\ sessions[k].attempts[a].st = "pending"
    /\ LET s == sessions[k]
       IN sessions' = [sessions EXCEPT ![k] =
              IF statusOk THEN [s EXCEPT !.attempts[a].st = "streaming"]
              ELSE proxyMjpeg([s EXCEPT !.attempts = RemoveAt(@, a)],
                              s.attempts[a].url + 1)]
    /\ UNCHANGED <<hubVars, linkVars, processUp, server, probes>>

\* req.on('error') of an upstream request that fails to connect
UpstreamError(k, a) ==
    /\ processUp
    /\ k \in DOMAIN sessions
    /\ a \in DOMAIN sessions[k].attempts
    /\ sessions[k].attempts[a].st = "pending"
    /\ LET s == sessions[k]
       IN sessions' = [sessions EXCEPT ![k] =
              proxyMjpeg([s EXCEPT !.attempts = RemoveAt(@, a)], s.attempts[a].url + 1)]
    /\ UNCHANGED <<hubVars, linkVars, processUp, server, probes>>

\* req.on('timeout'): req.destroy() and the next URL.  A request destroyed
\* before its response emits 'error' (socket hang up), whose handler moves
\* to the next URL once more; one destroyed while streaming does not.
UpstreamTimeout(k, a) ==
    /\ processUp
    /\ k \in DOMAIN sessions
    /\ a \in DOMAIN sessions[k].attempts
    /\ Len(sessions[k].attempts) + sessions[k].timers < MaxProducers
    /\ LET s == sessions[k]
           next == s.attempts[a].url + 1
           destroyed == [s EXCEPT !.attempts = RemoveAt(@, a)]
       IN sessions' = [sessions EXCEPT ![k] =
              IF s.attempts[a].st = "pending"
              THEN proxyMjpeg(proxyMjpeg(destroyed, next), next)
              ELSE proxyMjpeg(destroyed, next)]
    /\ UNCHANGED <<hubVars, linkVars, processUp, server, probes>>

\* cameraRes.on('data'): the chunk is written to the response
UpstreamChunk(k, a) ==
    /\ processUp
    /\ k \in DOMAIN sessions
    /\ a \in DOMAIN sessions[k].attempts
    /\ sessions[k].attempts[a].st = "streaming"
    /\ sessions' = [sessions EXCEPT ![k] = Late(@)]
    /\ UNCHANGED <<hubVars, linkVars, processUp, server, probes>>

\* cameraRes.on('end'): logged; the response to the viewer stays open
UpstreamEnd(k, a) ==
    /\ processUp
    /\ k \in DOMAIN sessions
    /\ a \in DOMAIN sessions[k].attempts
    /\ sessions[k].attempts[a].st = "streaming"
    /\ sessions' = [sessions EXCEPT ![k].attempts = RemoveAt(@, a)]
    /\ UNCHANGED <<hubVars, linkVars, processUp, server, probes>>

\* A synthetic frame timer is due.  In revision 1 a frame written after
\* res.end() makes the response emit 'error', which has no listener, unless
\* the response is destroyed by then: crashes says which.
FrameTick(k, crashes) ==
    /\ processUp
    /\ k \in DOMAIN sessions
    /\ sessions[k].timers > 0
    /\ LET s == sessions[k]
       IN IF s.rev = 1
          THEN IF s.ended /\ crashes
               THEN processUp' = FALSE /\ UNCHANGED sessions
               ELSE sessions' = [sessions EXCEPT ![k] = sendFrame(s)] /\ UNCHANGED processUp
          ELSE sessions' = [sessions EXCEPT ![k] = sendNextFrame(s)] /\ UNCHANGED processUp
    /\ UNCHANGED <<hubVars, linkVars, server, probes>>

\* The server runs with its link connected and no viewer yet.
StreamInit == HubInit /\ systemLogs = ConnectedLogs

StreamNext ==
    \/ \E route \in Routes, rev \in Revisions, known \in BOOLEAN :
          StreamRequest(route, rev, known)
    \/ \E k \in Sessions, isReachable \in BOOLEAN, crashes \in BOOLEAN :
          ProbeDone(k, isReachable, crashes)
    \/ \E k \in Sessions : ViewerClose(k)
    \/ \E k \in Sessions : ChildExit(k)
    \/ \E k \in Sessions : ChildKilled(k)
    \/ \E k \in Sessions : ChildStdout(k)
    \/ \E k \in Sessions : ChildStderr(k)
    \/ \E k \in Sessions, a \in 1..MaxProducers + 1, statusOk \in BOOLEAN :
          UpstreamResponse(k, a, statusOk)
    \/ \E k \in Sessions, a \in 1..MaxProducers + 1 : UpstreamError(k, a)
    \/ \E k \in Sessions, a \in 1..MaxProducers + 1 : UpstreamTimeout(k, a)
    \/ \E k \in Sessions, a \in 1..MaxProducers + 1 : UpstreamChunk(k, a)
    \/ \E k \in Sessions, a \in 1..MaxProducers + 1 : UpstreamEnd(k, a)
    \/ \E k \in Sessions, crashes \in BOOLEAN : FrameTick(k, crashes)

\* A child that was signalled exits.
StreamFairness == \A k \in Sessions : WF_vars(ChildKilled(k))

StreamSpec == StreamInit /\ [][StreamNext]_vars /\ StreamFairness

\* The sessions that run a transcoder: the network-camera and the
\* local-capture route.
TranscodeNext ==
    \/ \E route \in {"rtsp", "webcam"}, rev \in Revisions, known \in BOOLEAN :
          StreamRequest(route, rev, known)
    \/ \E k \in Sessions, isReachable \in BOOLEAN, crashes \in BOOLEAN :
          ProbeDone(k, isReachable, crashes)
    \/ \E k \in Sessions : ViewerClose(k)
    \/ \E k \in Sessions : ChildExit(k)
    \/ \E k \in Sessions : ChildKilled(k)
    \/ \E k \in Sessions : ChildStdout(k)
    \/ \E k \in Sessions : ChildStderr(k)
    \/ \E k \in Sessions, crashes \in BOOLEAN : FrameTick(k, crashes)

TranscodeSpec == StreamInit /\ [][TranscodeNext]_vars /\ StreamFairness

(***************************************************************************)
(* Shutdown.  The interrupt handler closes the owned handle if it is open, *)
(* calls wss.close() and server.close(callback); the callback calls        *)
(* process.exit(0).  http.Server emits 'close', and runs the callback,     *)
(* only once no connection is left: an upgraded WebSocket connection and a *)
(* streaming response are connections like any other.                      *)
(***************************************************************************)
\* The connections the HTTP server holds: a subscriber whose socket is not
\* closed yet, a viewer that is still connected to a response not ended.
Connections ==
    Cardinality({w \in Ws : readyState[w] \in {"OPEN", "CLOSING"}})
        + Cardinality({k \in DOMAIN sessions : ~sessions[k].gone /\ ~sessions[k].ended})

\* process.on('SIGINT').  closesClients is what wss.close() does to the
\* sockets it tracks: ws up to version 7 terminates each of them, ws 8
\* leaves them open; the source pins no version.  server.close() stops the
\* listening socket at once.
Sigint(closesClients) ==
    /\ server = "listening"
    /\ processUp
    /\ LET l1 == IF arduinoPort # 0 /\ port[arduinoPort] = "open"
                 THEN ClosePort(Link, arduinoPort) ELSE Link
           l2 == [l1 EXCEPT !.h.readyState =
                      [w \in Ws |-> IF closesClients /\ @[w] = "OPEN"
                                    THEN "CLOSING" ELSE @[w]]]
       IN CommitLink(l2)
    /\ server' = "closing"
    /\ Record("sigint", NoReading)
    /\ UNCHANGED <<subscribedAt, steps, device, sessions, processUp, probes>>

\* The callback of server.close(): process.exit(0).
ServerClosed ==
    /\ server = "closing"
    /\ processUp
    /\ Connections = 0
    /\ server' = "exited"
    /\ UNCHANGED <<hubVars, linkVars, sessions, processUp, probes>>

\* The process runs its handlers until it exits.
Running == server # "exited" /\ processUp

\* The server at its start (LinkInit), subscribers and viewers of the
\* synthetic pattern that come and go, the link's lifecycle, the signal.  A
\* connection is accepted only while the server listens; the subscribers
\* here are the first MaxShutdownClients sockets.
ShutdownNext ==
    \/ \E ws \in 1..MaxShutdownClients :
          server = "listening" /\ processUp /\ WsConnect(ws)
    \/ server = "listening" /\ StreamRequest("bluetooth", 1, TRUE)
    \/ \E ws \in Ws : Running /\ WsPeerClosing(ws)
    \/ \E ws \in Ws : Running /\ WsClose(ws)
    \/ Running /\ ListDone
    \/ \E p \in Handles : Running /\ PortOpen(p)
    \/ \E p \in Handles : Running /\ PortClosed(p)
    \/ \E p \in Handles : Running /\ ReconnectTimer(p)
    \/ \E k \in Sessions : Running /\ ViewerClose(k)
    \/ \E closesClients \in BOOLEAN : Sigint(closesClients)
    \/ ServerClosed

\* Node runs a callback that is due; a socket that was terminated closes; a
\* handle that is closing closes.
ShutdownFairness ==
    /\ WF_vars(ServerClosed)
    /\ \A ws \in Ws : WF_vars(readyState[ws] = "CLOSING" /\ Running /\ WsClose(ws))
    /\ \A p \in Handles : WF_vars(Running /\ PortClosed(p))

ShutdownSpec == LinkInit /\ [][ShutdownNext]_vars /\ ShutdownFairness

(***************************************************************************)
(* The log buffer: a server that has just been loaded (let systemLogs =    *)
(* []) and whose handlers insert one entry after the other.                *)
(***************************************************************************)
MaxInsertions == 1500

LogInit ==
    /\ clients = <<>>
    /\ readyState = [w \in Ws |-> "NONE"]
    /\ inbox = [w \in Ws |-> <<>>]
    /\ sensorData = <<1, 1, 1>>
    /\ systemMetrics = [fireDetections |-> 0, waterActivations |-> 0, activeCameras |-> 0]
    /\ systemLogs = <<>>
    /\ published = <<>>
    /\ subscribedAt = [w \in Ws |-> 0]
    /\ last = [op |-> "init", values |-> NoReading, data |-> <<>>, fd0 |-> 0,
               pub0 |-> 0,
               clients0 |-> <<>>,
               prevOp |-> "init", prevValues |-> NoReading, prevFd0 |-> 0]
    /\ steps = 0
    /\ port = [p \in Handles |-> "none"]
    /\ arduinoPort = 0
    /\ arduinoConnected = FALSE
    /\ searching = 0
    /\ reconnectTimers = {}
    /\ simulations = <<>>
    /\ device = FALSE
    /\ sessions = <<>>
    /\ processUp = TRUE
    /\ server = "listening"
    /\ probes = <<>>

\* A handler calls addSystemLog(message, type).
LogInsert(message, type) ==
    /\ Len(published) < MaxInsertions
    /\ Commit(addSystemLog(Hub, message, type))
    /\ Record("log", NoReading)
    /\ UNCHANGED <<subscribedAt, steps, linkRest, streamVars>>

LogNext == LogInsert("Water system activated", "water")

LogSpec == LogInit /\ [][LogNext]_vars

(***************************************************************************)
(* The reachability probe.  testRTSPConnection(url) returns a promise; its *)
(* body runs at the call, the listeners of its socket later.  A probe is   *)
(* [rev, url, socket, attempted, result, resolves]: socket is none,        *)
(* connecting, connected (the connect listener has run socket.end()) or    *)
(* destroyed; result is what the promise is settled with, pending before.  *)
(***************************************************************************)
MaxProbes == 2

\* The urls a caller passes: one that names a test stream (it contains
\* '184.72.239.149' or 'BigBuckBunny'), another well-formed one, one that
\* new URL() rejects, a value that is no string.
UrlKinds == {"test", "camera", "invalid", "notString"}

\* resolve(value) of the promise: the first call settles it, later calls
\* change nothing.
resolve(p, value) ==
    [p EXCEPT !.result = IF @ = "pending" THEN value ELSE @, !.resolves = @ + 1]

\* The executor of testRTSPConnection.  Revision 2 resolves true for a test
\* stream before it parses the url; revision 1 has no such case.  A value
\* new URL() rejects, or in revision 2 one without an includes method,
\* throws inside the try: resolve(false).
testRTSPConnection(rev, url) ==
    LET p == [rev |-> rev, url |-> url, socket |-> "none", attempted |-> FALSE,
              result |-> "pending", resolves |-> 0]
    IN IF rev = 2 /\ url = "test" THEN resolve(p, "true")
       ELSE IF url \in {"invalid", "notString"} THEN resolve(p, "false")
       ELSE [p EXCEPT !.socket = "connecting", !.attempted = TRUE]

\* net.createConnection(port, host, listener): socket.end(); resolve(true)
OnSocketConnect(p) == resolve([p EXCEPT !.socket = "connected"], "true")

\* socket.on('timeout'): socket.destroy(); resolve(false)
OnSocketTimeout(p) == resolve([p EXCEPT !.socket = "destroyed"], "false")

\* socket.on('error'): resolve(false); net destroys a socket that errs.
OnSocketError(p) == resolve([p EXCEPT !.socket = "destroyed"], "false")

\* A handler calls testRTSPConnection: POST /api/test-rtsp in both
\* revisions, test_rtsp in revision 1, GET /rtsp-proxy in revision 2.  One
\* process runs one revision.
ProbeCall(rev, url) ==
    /\ Len(probes) < MaxProbes
    /\ \A i \in DOMAIN probes : probes[i].rev = rev
    /\ probes' = Append(probes, testRTSPConnection(rev, url))
    /\ UNCHANGED <<hubVars, linkVars, sessions, processUp, server>>

SocketConnect(i) ==
    /\ i \in DOMAIN probes
    /\ probes[i].socket = "connecting"
    /\ probes' = [probes EXCEPT ![i] = OnSocketConnect(@)]
    /\ UNCHANGED <<hubVars, linkVars, sessions, processUp, server>>

\* The socket is idle for the timeout: while it connects, or after
\* socket.end() while the peer keeps its side open.
SocketTimeout(i) ==
    /\ i \in DOMAIN probes
    /\ probes[i].socket \in {"connecting", "connected"}
    /\ probes' = [probes EXCEPT ![i] = OnSocketTimeout(@)]
    /\ UNCHANGED <<hubVars, linkVars, sessions, processUp, server>>

\* The connection is refused or the host not found, or the connection is
\* reset after the connect.
SocketError(i) ==
    /\ i \in DOMAIN probes
    /\ probes[i].socket \in {"connecting", "connected"}
    /\ probes' = [probes EXCEPT ![i] = OnSocketError(@)]
    /\ UNCHANGED <<hubVars, linkVars, sessions, processUp, server>>

\* The peer closes its side: the socket is closed, no listener of the probe
\* runs.
SocketClosed(i) ==
    /\ i \in DOMAIN probes
    /\ probes[i].socket = "connected"
    /\ probes' = [probes EXCEPT ![i].socket = "destroyed"]
    /\ UNCHANGED <<hubVars, linkVars, sessions, processUp, server>>

ProbeNext ==
    \/ \E rev \in Revisions, url \in UrlKinds : ProbeCall(rev, url)
    \/ \E i \in 1..MaxProbes : SocketConnect(i)
    \/ \E i \in 1..MaxProbes : SocketTimeout(i)
    \/ \E i \in 1..MaxProbes : SocketError(i)
    \/ \E i \in 1..MaxProbes : SocketClosed(i)

ProbeSpec == StreamInit /\ [][ProbeNext]_vars

(***************************************************************************)
(* The decoder on its own: lines of every format, and lines of none, are   *)
(* delivered to parser.on('data') of a connected link.                     *)
(***************************************************************************)
MaxDecodes == 2

DecoderLines ==
    {
     <<"0", ",", "1", ",", "1">>,
     <<"0", ",", "7", ",", "2", "5", "0">>,
     <<"1", ",", "1", ",", "1">>,
     <<"0", ",", "0", ",", "0">>,
     <<"0", "0", ",", "5", ",", "0">>,
     <<"1", "2", ",", "0", ",", "3">>,
     <<"S", "E", "N", "S", "O", "R", "S", ":", "0", ",", "1", ",", "1">>,
     <<"S", "E", "N", "S", "O", "R", "S", ":", "7", ",", "0", ",", "1">>,
     <<"S", "E", "N", "S", "O", "R", "S", ":", "1", ",", "1", ",", "1">>,
     <<"S", "E", "N", "S", "O", "R", "S", ":", " ", "0", " ", ",", " ", "0", " ", ",", "1">>,
     <<"S", "E", "N", "S", "O", "R", "S", ":", "a", ",", "b", ",", "c">>,
     <<"S", "E", "N", "S", "O", "R", "S", ":", "1", ",", "1">>,
     <<"S", "E", "N", "S", "O", "R", "S", ":", "-", "3", ",", "0", ",", "0">>,
     <<"S", "E", "N", "S", "O", "R", "S", ":", "F", "I", "R", "E">>,
     <<"F", "I", "R", "E">>,
     <<"F", "L", "A", "M", "E">>,
     <<"F", "I", "R", "E", " ", "D", "2">>,
     <<"F", "I", "R", "E", " ", "1">>,
     <<"F", "L", "A", "M", "E", " ", "D", "4">>,
     <<"F", "I", "R", "E", " ", "1", "2", "3">>,
     <<"F", "I", "R", "E", " ", "1", "3">>,
     <<"F", "I", "R", "E", " ", "D", "3">>,
     <<"1", "0", "0", " ", "6", "0", "0", " ", "4", "9", "9">>,
     <<"5", "0", "0", "\t", "0", "\t", "1", "0", "2", "3">>,
     <<"1", " ", "2", " ", "3">>,
     <<"S", "1", ":", "0">>,
     <<"S", "2", ":", "0">>,
     <<"S", "3", ":", "0">>,
     <<"S", "1", ":", "1">>,
     <<"S", "2", ":", "1">>,
     <<"g", "a", "r", "b", "a", "g", "e">>,
     <<"S", "4", ":", "0">>,
     <<"S", "1", ":", "2">>,
     <<"1", ",", "2">>,
     <<"1", ",", "2", ",", "3", ",", "4">>,
     <<"1", ",", ",", "2">>,
     <<>>,
     <<" ", " ">>,
     <<"s", "1", ":", "0">>,
     <<"f", "i", "r", "e", " ", "1">>,
     <<"0", ",", "1", ",", "1", "x">>,
     <<"D", "2">>,
     <<" ", "0", ",", "0", ",", "1", "\r">>
    }

DecoderData(data) == steps < MaxDecodes /\ ParserData(data)

DecoderNext == \E data \in DecoderLines : DecoderData(data)

DecoderSpec == HubInit /\ [][DecoderNext]_vars

(***************************************************************************)
(* Properties of the alert engine and the hub (HubSpec).                   *)
(***************************************************************************)
CountType(events, type) ==
    Cardinality({i \in 1..Len(events) : events[i].type = type})

\* The events the last handler published, in order.
LastPublished == SubSeq(published, last.pub0 + 1, Len(published))

\* The position of the first event of a type, 0 when there is none.
FirstOfType(events, type) ==
    IF \E i \in 1..Len(events) : events[i].type = type
    THEN CHOOSE i \in 1..Len(events) :
            /\ events[i].type = type
            /\ \A j \in 1..(i - 1) : events[j].type # type
    ELSE 0

Min(a, b) == IF a < b THEN a ELSE b

\* C1: no debounce.  A line of the link whose reading has a tripped slot
\* raises fireDetections by exactly 1 and publishes exactly one fire_alert,
\* also when the reading equals the one before it; the same fire reading
\* twice in a row raises fireDetections by exactly 2.
C1_NoDebounce ==
    (last.op = "data" /\ last.values # NoReading /\ Includes0(last.values)) =>
        /\ systemMetrics.fireDetections = last.fd0 + 1
        /\ CountType(LastPublished, "fire_alert") = 1
        /\ (last.prevOp = "data" /\ last.prevValues = last.values) =>
               systemMetrics.fireDetections = last.prevFd0 + 2

\* C1 witness: the fire reading 0,1,1 arrived twice in a row and each
\* arrival raised an alert.
C1_Witness ==
    /\ last.op = "data" /\ last.prevOp = "data"
    /\ last.values = <<0, 1, 1>> /\ last.prevValues = <<0, 1, 1>>
    /\ systemMetrics.fireDetections = last.prevFd0 + 2
    /\ CountType(published, "fire_alert") = 2

\* C5: a socket that has left OPEN is sent nothing by any later handler, and
\* once it is CLOSED it is not in clients, so no later publish finds it there.
C5_ClosedGetsNothing ==
    [][\A ws \in Ws :
          /\ readyState[ws] \in {"CLOSING", "CLOSED"} => inbox'[ws] = inbox[ws]
          /\ readyState'[ws] = "CLOSED" => ~InSeq(ws, clients')]_vars

\* C5 witness: a publish ran after a subscriber that had received events
\* was closed.
C5_Witness ==
    \E ws \in Ws :
        /\ readyState[ws] = "CLOSED" /\ Len(inbox[ws]) > 1
        /\ ~InSeq(ws, last.clients0) /\ ~InSeq(ws, clients)
        /\ Len(published) > last.pub0
        /\ last.op = "data"

\* C6 as stated: when a handler that published ends, every socket still in
\* clients is OPEN (the publish has removed those it found not open).
C6_PublishPrunes ==
    [][published' # published =>
          \A i \in 1..Len(clients') : readyState'[clients'[i]] = "OPEN"]_vars

\* C6, amended: a publish removes no subscriber, it only skips the ones it
\* finds not open; a socket leaves clients in its own close handler and
\* nowhere else, so a CLOSED socket is never in clients.
C6_PublishKeepsSet ==
    [][\A ws \in Ws :
          /\ (published' # published /\ InSeq(ws, clients)) => InSeq(ws, clients')
          /\ (InSeq(ws, clients) /\ ~InSeq(ws, clients')) =>
                 (readyState[ws] # "CLOSED" /\ readyState'[ws] = "CLOSED")]_vars

\* C6 witness: a publish has skipped a CLOSING socket, which is still in
\* clients.
C6_Witness ==
    \E ws \in Ws :
        /\ readyState[ws] = "CLOSING" /\ InSeq(ws, clients) /\ InSeq(ws, last.clients0)
        /\ Len(published) > last.pub0
        /\ inbox[ws][Len(inbox[ws])] # published[Len(published)]

\* The snapshot a new subscriber is owed in a given state.
Snapshot(ws, conn, data, metrics, logs) ==
    /\ conn.type = "connection"
    /\ conn.arduinoConnected = arduinoConnected'
    /\ conn.sensorData = data
    /\ conn.systemMetrics = metrics
    /\ LET n == Len(logs)
           k == Min(SnapshotLogs, n)
       IN /\ Len(conn.logs) = k
          /\ \A i \in 1..k : conn.logs[i] = logs[n - k + i]
          /\ \A i \in 1..(k - 1) : conn.logs[i].n < conn.logs[i + 1].n

\* C7: every subscriber's first message is its one connection snapshot, and
\* the snapshot holds the link status, the stored reading, the metrics and
\* the last min(20, n) log entries, oldest first, as they are when it joins.
C7_BootstrapFirst ==
    /\ [](\A ws \in Ws : readyState[ws] # "NONE" =>
             /\ inbox[ws] # <<>>
             /\ inbox[ws][1].type = "connection"
             /\ CountType(inbox[ws], "connection") = 1)
    /\ [][\A ws \in Ws : (readyState[ws] = "NONE" /\ readyState'[ws] # "NONE") =>
             /\ Len(inbox'[ws]) = 1
             /\ Snapshot(ws, inbox'[ws][1], sensorData', systemMetrics', systemLogs')]_vars

\* C7 witness: a subscriber that joined a server with more than 20 log
\* entries got the last 20 and has received events since.
C7_Witness ==
    \E ws \in Ws :
        /\ Len(inbox[ws]) > 1
        /\ Len(inbox[ws][1].logs) = SnapshotLogs
        /\ Len(systemLogs) > SnapshotLogs
        /\ inbox[ws][1].logs[SnapshotLogs].message = "New WebSocket client connected"
        /\ inbox[ws][1].systemMetrics.fireDetections > 0

\* The broadcast events among what a socket was sent (the snapshot and the
\* camera_url replies are sent to one socket only).
Broadcasts(events) ==
    SelectSeq(events, LAMBDA e : e.type \notin {"connection", "camera_url"})

\* C8: an open subscriber has received exactly the events published since it
\* joined, in publication order; the handler of a fire reading publishes its
\* sensor_update before its fire_alert; what is published is only ever
\* extended, so no event overtakes an earlier one.
C8_GenerationOrder ==
    /\ [](\A ws \in Ws : readyState[ws] = "OPEN" =>
             Broadcasts(inbox[ws]) = SubSeq(published, subscribedAt[ws] + 1, Len(published)))
    /\ []((last.op = "data" /\ CountType(LastPublished, "fire_alert") > 0) =>
             /\ FirstOfType(LastPublished, "sensor_update") = 1
             /\ FirstOfType(LastPublished, "fire_alert") > 1)
    /\ [][/\ Len(published') >= Len(published)
          /\ SubSeq(published', 1, Len(published)) = published
          /\ \A ws \in Ws : readyState[ws] = "OPEN" =>
                SubSeq(inbox'[ws], 1, Len(inbox[ws])) = inbox[ws]]_vars

\* C8 witness: an open subscriber has received the events of a fire reading
\* and of a later reading.
C8_Witness ==
    \E ws \in Ws :
        /\ readyState[ws] = "OPEN"
        /\ last.op = "data" /\ last.prevOp = "data"
        /\ last.prevValues = <<0, 1, 1>> /\ last.values = <<1, 1, 1>>
        /\ CountType(inbox[ws], "sensor_update") = 2
        /\ CountType(inbox[ws], "fire_alert") = 1


(***************************************************************************)
(* Properties of the link lifecycle (LinkSpec).                            *)
(***************************************************************************)
Connected == arduinoConnected /\ \E p \in Handles : port[p] = "open"

\* C2: no simulation interval is running while the link is
\* Connected, so a simulation never feeds readings beside a real link.
C2_SimulationExclusive == Connected => simulations = <<>>

\* C9: at most one handle is open, and a handle that a later
\* connect has superseded (it is no longer arduinoPort) is neither open nor
\* about to open: its close was effective before the new handle was made.
C9_SingleOwner ==
    /\ Cardinality({p \in Handles : port[p] = "open"}) <= 1
    /\ \A p \in Handles : port[p] \in {"opening", "open"} => p = arduinoPort

\* The events a step publishes.
NewlyPublished == SubSeq(published', Len(published) + 1, Len(published'))

\* C10: the close handler of a handle marks the link down, publishes the
\* disconnected status and sets the retry timer; the timer, when it fires,
\* starts a search; and it does fire: every close event is followed by a
\* search.
C10_CloseLeadsToSearch ==
    /\ [][\A p \in Handles : (port[p] = "closing" /\ port'[p] = "closed") =>
             /\ ~arduinoConnected'
             /\ p \in reconnectTimers'
             /\ \E i \in 1..Len(NewlyPublished) :
                   /\ NewlyPublished[i].type = "arduino_status"
                   /\ NewlyPublished[i].status = "disconnected"]_vars
    /\ [][\A p \in Handles : (p \in reconnectTimers /\ p \notin reconnectTimers') =>
             searching' = searching + 1]_vars
    /\ \A p \in Handles :
          (p \in reconnectTimers) ~>
              (last.op = "reconnect_timer" /\ last.values = <<p>> /\ searching > 0)

\* C10 witness: a handle was opened and lost, its close event set the
\* timer, the timer fired and the new search found the device again.
C10_Witness ==
    \E p, q \in Handles :
        /\ port[p] = "closed" /\ p \notin reconnectTimers
        /\ port[q] = "opening" /\ arduinoPort = q /\ q > p
        /\ ~arduinoConnected
        /\ last.op = "list_done" /\ last.prevOp = "reconnect_timer"
        /\ CountType(inbox[1], "arduino_status") = 2


(***************************************************************************)
(* Properties of the stream sessions.                                      *)
(***************************************************************************)
\* C3: in a network-camera or local-capture session, a viewer that
\* disconnects while the session's transcoder child is running has that
\* child signalled by the disconnect handler at once, and the child is
\* eventually not running any more.
C3_DisconnectKillsChild ==
    /\ [](\A k \in DOMAIN sessions :
             sessions[k].liveAtClose => sessions[k].child \in {"killed", "exited"})
    /\ \A k \in Sessions :
          (k \in DOMAIN sessions /\ sessions[k].liveAtClose)
             ~> (k \in DOMAIN sessions /\ sessions[k].child = "exited")

\* C3 witness: a transcoding session whose viewer left while the child ran,
\* and whose child has exited since.
C3_Witness ==
    \E k \in DOMAIN sessions :
        /\ sessions[k].route \in {"rtsp", "webcam"}
        /\ sessions[k].liveAtClose
        /\ sessions[k].gone
        /\ sessions[k].child = "exited"

\* C4: in every stream path, once the viewer is gone the session sets no
\* further synthetic frame timer and forwards no further upstream chunk or
\* transcoder frame, and while the server runs it comes to have no pending
\* timer, no upstream request in flight and an ended response.
C4_ReleasedOnDisconnect ==
    /\ [](\A k \in DOMAIN sessions : ~sessions[k].late)
    /\ \A k \in Sessions :
          (k \in DOMAIN sessions /\ sessions[k].gone)
             ~> (\/ ~processUp
                 \/ /\ k \in DOMAIN sessions
                    /\ sessions[k].timers = 0
                    /\ sessions[k].attempts = <<>>
                    /\ sessions[k].ended)


(***************************************************************************)
(* Properties of the link's failures (LinkSpec).                           *)
(***************************************************************************)
\* C11: after a handle fails to open, and after a transport error on an
\* open handle, the link is marked down and a retry is scheduled (a retry
\* timer or a search is pending), and a search does follow.
C11_FailureRetries ==
    /\ [][\A p \in Handles :
             (\/ port[p] = "opening" /\ port'[p] = "closed"
              \/ last'.op = "port_error" /\ steps' # steps /\ port[p] = "open") =>
                 /\ ~arduinoConnected'
                 /\ reconnectTimers' # {} \/ searching' > 0]_vars
    /\ (last.op \in {"port_open_fail", "port_error"}) ~> (last.op = "list_done")

\* C12: the error handler marks the link down and sets no timer and starts
\* no search; a retry timer is set only by the close event of a handle, and
\* a search starts only when such a timer fires or on the reconnect command.
C12_ErrorSchedulesNothing ==
    [][/\ (\/ \E p \in Handles : port[p] = "opening" /\ port'[p] = "closed"
           \/ last'.op = "port_error" /\ steps' # steps) =>
              /\ ~arduinoConnected'
              /\ reconnectTimers' = reconnectTimers
              /\ searching' = searching
       /\ \A p \in Handles :
             (p \notin reconnectTimers /\ p \in reconnectTimers') =>
                 (port[p] = "closing" /\ port'[p] = "closed")
       /\ searching' > searching =>
             \/ \E p \in Handles : p \in reconnectTimers /\ p \notin reconnectTimers'
             \/ last'.op = "reconnect_arduino" /\ steps' # steps]_vars

\* C12 witness: a transport error on the open handle left the link marked
\* down with the handle open, no retry timer and no search.
C12_Witness ==
    /\ last.op = "port_error"
    /\ ~arduinoConnected
    /\ \E p \in Handles : port[p] = "open" /\ arduinoPort = p
    /\ reconnectTimers = {}
    /\ searching = 0


(***************************************************************************)
(* Properties of the shutdown (ShutdownSpec).                              *)
(***************************************************************************)
\* C13: after the interrupt signal the owned handle is no longer open, no
\* new connection is accepted, and the process eventually exits with code
\* 0, whatever subscribers and viewers are connected when the signal comes.
C13_ShutdownExits ==
    /\ [][server = "listening" /\ server' = "closing" =>
             (arduinoPort # 0 => port'[arduinoPort] # "open")]_vars
    /\ [][server # "listening" =>
             /\ \A w \in Ws : readyState[w] = "NONE" => readyState'[w] = "NONE"
             /\ Len(sessions') = Len(sessions)]_vars
    /\ (server = "closing") ~> (server = "exited")


(***************************************************************************)
(* Properties of the stored and the published reading (HubSpec).           *)
(***************************************************************************)
\* The handlers that hand a reading to updateSensors.
ReadingOps == {"data", "simulate_fire", "api_simulate_fire"}

IsReading(values) == Len(values) = 3 /\ \A i \in 1..3 : values[i] \in {0, 1}

\* C14: once a reading R is processed, each stored slot equals the slot of
\* R, a tripped slot being stored as 0.
C14_StoredIsReading ==
    (last.op \in ReadingOps /\ IsReading(last.values)) => sensorData = last.values


\* C15: the stored reading always has three slots, each 0 or 1, and so has
\* the reading of every sensor_update and fire_alert published.
C15_ThreeBinarySlots ==
    /\ IsReading(sensorData)
    /\ \A i \in 1..Len(published) :
          published[i].type \in {"sensor_update", "fire_alert"} =>
              IsReading(published[i].sensorValues)


\* C16: for a three-slot reading R, the one sensor_update published for it
\* has fireDetected true exactly when some slot of R is 0, whatever was
\* processed before.
C16_FlagOfReadingAlone ==
    (last.op \in ReadingOps /\ Len(last.values) = 3) =>
        /\ CountType(LastPublished, "sensor_update") = 1
        /\ \A i \in 1..Len(LastPublished) :
              LastPublished[i].type = "sensor_update" =>
                  (LastPublished[i].fireDetected <=> \E j \in 1..3 : last.values[j] = 0)

\* A fire reading right after a fire reading, flagged again.
C16_Witness ==
    /\ last.op \in ReadingOps /\ last.prevOp \in ReadingOps
    /\ Len(last.values) = 3 /\ Includes0(last.values) /\ Includes0(last.prevValues)
    /\ \E i \in 1..Len(LastPublished) :
          LastPublished[i].type = "sensor_update" /\ LastPublished[i].fireDetected


\* The number of tripped slots of a reading.
Tripped(values) == Cardinality({j \in 1..Len(values) : values[j] = 0})

\* The labels of the tripped slots of a three-slot reading, in slot order,
\* joined with ' & '.
TrippedLabels(values) ==
    LET t == [j \in 1..3 |-> values[j] = 0]
    IN CASE t = <<TRUE, FALSE, FALSE>> -> "Sensor 1 (D2)"
         [] t = <<FALSE, TRUE, FALSE>> -> "Sensor 2 (D3)"
         [] t = <<FALSE, FALSE, TRUE>> -> "Sensor 3 (D4)"
         [] t = <<TRUE, TRUE, FALSE>> -> "Sensor 1 (D2) & Sensor 2 (D3)"
         [] t = <<TRUE, FALSE, TRUE>> -> "Sensor 1 (D2) & Sensor 3 (D4)"
         [] t = <<FALSE, TRUE, TRUE>> -> "Sensor 2 (D3) & Sensor 3 (D4)"
         [] t = <<TRUE, TRUE, TRUE>> -> "Sensor 1 (D2) & Sensor 2 (D3) & Sensor 3 (D4)"
         [] OTHER -> "none"

\* C17: the fire_alert published for a fire reading has severity CRITICAL,
\* HIGH or MEDIUM for three, two or one tripped slot, and as location the
\* labels of the tripped slots, in slot order, joined with ' & '.
C17_SeverityAndLocation ==
    (last.op \in ReadingOps /\ Len(last.values) = 3 /\ Tripped(last.values) > 0) =>
        /\ CountType(LastPublished, "fire_alert") > 0
        /\ \A i \in 1..Len(LastPublished) :
              LastPublished[i].type = "fire_alert" =>
                  /\ LastPublished[i].severity =
                        CASE Tripped(last.values) = 3 -> "CRITICAL"
                          [] Tripped(last.values) = 2 -> "HIGH"
                          [] OTHER -> "MEDIUM"
                  /\ LastPublished[i].location = TrippedLabels(last.values)

\* All three slots tripped: a CRITICAL alert.
C17_Witness ==
    /\ last.op \in ReadingOps /\ last.values = <<0, 0, 0>>
    /\ \E i \in 1..Len(LastPublished) :
          LastPublished[i].type = "fire_alert" /\ LastPublished[i].severity = "CRITICAL"


(***************************************************************************)
(* Properties of the log buffer (LogSpec).                                 *)
(***************************************************************************)
\* The insertions so far: each one publishes one log_entry.
Inserted == CountType(published, "log_entry")

\* C18: the buffer never holds more than 1000 entries, and after N
\* insertions it holds the most recent min(N, 1000) of them, oldest first:
\* entries 501..1500 after 1500.
C18_MostRecentThousand ==
    LET N == Inserted
    IN /\ Len(systemLogs) = Min(N, 1000)
       /\ \A i \in 1..Len(systemLogs) : systemLogs[i].n = N - Len(systemLogs) + i
       /\ N = 1500 => systemLogs[1].n = 501 /\ systemLogs[1000].n = 1500

C18_Witness ==
    Inserted = 1500 /\ Len(systemLogs) = 1000 /\ systemLogs[1].n = 501


(***************************************************************************)
(* Properties of the inbound commands (HubSpec).                           *)
(***************************************************************************)
\* C19: a message with a command no case names, or one that does not parse,
\* changes nothing: the reading, the metrics, the link state and the
\* subscribers stay as they are, nothing is published or logged, nothing
\* is sent to the sender, and its socket stays open.
C19_UnknownChangesNothing ==
    [][(last'.op \in {"unknown", "malformed"} /\ steps' # steps) =>
          /\ UNCHANGED <<sensorData, systemMetrics, systemLogs, published>>
          /\ UNCHANGED <<clients, readyState, inbox>>
          /\ UNCHANGED linkVars]_vars

\* An unknown command after a malformed message, from a socket that is open.
C19_Witness ==
    /\ last.op = "unknown" /\ last.prevOp = "malformed"
    /\ \E ws \in Ws : readyState[ws] = "OPEN"
    /\ Len(inbox[1]) = 1


(***************************************************************************)
(* Properties of the network-camera fallback (TranscodeSpec).              *)
(***************************************************************************)
\* C20: when the probe of a network-camera session reports unreachable, the
\* session gets no transcoder child, then or later, and its response is
\* served by the synthetic pattern: the server runs and the frame loop of
\* the session is scheduled.
C20_UnreachableFallsBack ==
    [][\A k \in DOMAIN sessions :
          /\ (sessions[k].probe /\ ~sessions'[k].probe /\ sessions'[k].child = "none") =>
                /\ processUp'
                /\ sessions'[k].headersSent /\ sessions'[k].timers > 0
          /\ (/\ sessions[k].route = "rtsp" /\ sessions[k].rev = 2
              /\ ~sessions[k].probe /\ sessions[k].child = "none") =>
                sessions'[k].child = "none"]_vars


(***************************************************************************)
(* Properties of the reachability probe (ProbeSpec).                       *)
(***************************************************************************)
\* C21: a probe settles once, with a boolean: reachable after a connect,
\* unreachable after a timeout, an error or an invalid url, and reachable
\* without a network attempt for a test stream.
C21_ProbeSettlesOnce ==
    /\ [](\A i \in DOMAIN probes :
             /\ probes[i].socket # "connecting" => probes[i].result \in {"true", "false"}
             /\ probes[i].url \in {"invalid", "notString"} => probes[i].result = "false"
             /\ probes[i].url = "test" =>
                   probes[i].result = "true" /\ ~probes[i].attempted)
    /\ [][\A i \in DOMAIN probes :
             /\ probes[i].result # "pending" => probes'[i].result = probes[i].result
             /\ (probes[i].socket = "connecting" /\ probes'[i].socket = "connected") =>
                   probes'[i].result = "true"
             /\ (probes[i].socket = "connecting" /\ probes'[i].socket = "destroyed") =>
                   probes'[i].result = "false"]_vars


(***************************************************************************)
(* Properties of the fallbacks of the stream sessions.                     *)
(***************************************************************************)
\* C22: in a local-capture session the first runtime failure of the
\* transcoder terminates the child and starts the synthetic frames, and
\* from then on the response is served by them until the viewer leaves:
\* the child's exit does not end it.
C22_FallbackForTheSession ==
    [][\A k \in DOMAIN sessions :
          LET s == sessions[k]
              t == sessions'[k]
          IN s.route = "webcam" =>
                /\ (/\ s.child = "running" /\ ~s.gone /\ ~t.gone
                    /\ t.timers > s.timers \/ t.child = "killed") =>
                      t.child # "running" /\ processUp' /\ t.timers > 0
                /\ (s.timers > 0 /\ ~s.ended /\ ~t.gone) =>
                      ~t.ended /\ t.timers > 0]_vars


\* C23: the push-camera proxy tries one candidate after the other, in list
\* order: at any time one request is outstanding or streaming, or the
\* synthetic pattern runs, never two of them; and once a candidate streams,
\* no other candidate is tried and no pattern started.
C23_OneCandidateAtATime ==
    /\ [](\A k \in DOMAIN sessions :
             sessions[k].route = "wifi" =>
                /\ Len(sessions[k].attempts) + sessions[k].timers <= 1
                /\ \A a \in DOMAIN sessions[k].attempts :
                      sessions[k].attempts[a].url < UrlCount)
    /\ [][\A k \in DOMAIN sessions :
             (/\ sessions[k].route = "wifi"
              /\ \E a \in DOMAIN sessions[k].attempts :
                    sessions[k].attempts[a].st = "streaming") =>
                /\ \A a \in DOMAIN sessions'[k].attempts :
                      sessions'[k].attempts[a].st = "streaming"
                /\ sessions'[k].timers = sessions[k].timers]_vars


\* C24: no failure path of a stream session ends in an exception nothing
\* handles: the process keeps running, and a session whose transcoder has
\* failed or whose camera is unreachable is served synthetic frames or has
\* its response ended.
C24_NoUnhandledException ==
    /\ processUp
    /\ \A k \in DOMAIN sessions :
          (/\ sessions[k].route \in {"rtsp", "webcam"} /\ ~sessions[k].probe
           /\ sessions[k].child \in {"none", "exited"} /\ ~sessions[k].gone) =>
              sessions[k].ended \/ sessions[k].timers > 0


(***************************************************************************)
(* Properties of the simulation (LinkSpec).                                *)
(***************************************************************************)
\* C25: a simulated fire tick publishes what a line of the link with the
\* same reading publishes: one sensor_update and one fire_alert, and it
\* raises fireDetections by one.
C25_SimulatedFireAsReal ==
    last.op = "sim_fire" =>
        /\ CountType(LastPublished, "sensor_update") = 1
        /\ CountType(LastPublished, "fire_alert") = 1
        /\ systemMetrics.fireDetections = last.fd0 + 1


(***************************************************************************)
(* Properties of the decoder (DecoderSpec).                                *)
(***************************************************************************)
\* The trimmed line matches none of the five formats.
MatchesNone(data) ==
    LET t == Trim(data)
    IN /\ ~IsFormat1(t) /\ ~StartsWith(t, SENSORS_PREFIX)
       /\ ~Includes(t, FIRE_WORD) /\ ~Includes(t, FLAME_WORD)
       /\ ~IsFormat4(t) /\ ~IsFormat5(t)

\* C26: a line that matches no format changes nothing and publishes
\* nothing, and no line makes more than one reading: at most one
\* sensor_update is published for it.
C26_NoMatchDiscarded ==
    [][(last'.op = "data" /\ steps' # steps) =>
          /\ MatchesNone(last'.data) =>
                /\ UNCHANGED <<sensorData, systemMetrics, systemLogs, published>>
                /\ UNCHANGED <<clients, readyState, inbox, arduinoConnected, processUp>>
                /\ last'.values = NoReading
          /\ CountType(SubSeq(published', Len(published) + 1, Len(published')),
                       "sensor_update") <= 1]_vars

\* A line of no format after a fire reading.
C26_Witness ==
    /\ last.op = "data" /\ last.data = <<"g", "a", "r", "b", "a", "g", "e">>
    /\ last.prevOp = "data" /\ Includes0(last.prevValues)
    /\ CountType(published, "fire_alert") = 1


\* The line with its white space trimmed is SENSORS: followed by three
\* comma-separated fields.
IsSensorsLine(data) ==
    /\ StartsWith(Trim(data), SENSORS_PREFIX)
    /\ Len(SplitComma(SubSeq(Trim(data), Len(SENSORS_PREFIX) + 1, Len(Trim(data))),
                      <<>>)) = 3

\* The three fields of a SENSORS: line, parsed as integers.
SensorsFields(data) ==
    MapSeq(ParseTrimmed,
           SplitComma(SubSeq(Trim(data), Len(SENSORS_PREFIX) + 1, Len(Trim(data))), <<>>))

\* C27: a SENSORS: line is coerced like the plain comma format: a slot is 0
\* for a field that is zero and 1 for any other integer, and a line whose
\* fields are not integers gives no reading.
C27_SensorsCoerced ==
    (last.op = "data" /\ IsSensorsLine(last.data)) =>
        LET f == SensorsFields(last.data)
        IN IF \E i \in 1..3 : f[i] = NaN THEN last.values = NoReading
           ELSE last.values = [i \in 1..3 |-> IF f[i] = 0 THEN 0 ELSE 1]


\* The value of a field of digits, digit by digit.
RECURSIVE FieldValue(_)
FieldValue(field) ==
    IF field = <<>> THEN 0
    ELSE 10 * FieldValue(SubSeq(field, 1, Len(field) - 1)) + DigitVal(field[Len(field)])

\* C28: a line of three comma-separated non-negative integers decodes to
\* the reading whose slot is 0 where the integer is zero and 1 where it is
\* not: '0,7,250' gives [0,1,1].
C28_CommaCoerced ==
    (last.op = "data" /\ IsFormat1(Trim(last.data))) =>
        LET f == SplitComma(Trim(last.data), <<>>)
        IN /\ last.values = [i \in 1..3 |-> IF FieldValue(f[i]) = 0 THEN 0 ELSE 1]
           /\ last.data = <<"0", ",", "7", ",", "2", "5", "0">> => last.values = <<0, 1, 1>>

C28_Witness ==
    /\ last.op = "data" /\ last.data = <<"0", ",", "7", ",", "2", "5", "0">>
    /\ last.values = <<0, 1, 1>>
    /\ \E i \in 1..Len(LastPublished) :
          /\ LastPublished[i].type = "sensor_update"
          /\ LastPublished[i].sensorValues = <<0, 1, 1>>


\* The line holds the character c.
HasChar(data, c) == \E i \in 1..Len(data) : data[i] = c

\* The line holds the pin name D followed by digit c.
HasPin(data, c) == \E i \in 1..Len(data) - 1 : data[i] = "D" /\ data[i + 1] = c

\* The line holds FIRE or FLAME and matches neither of the two formats
\* tried before.
IsFireLine(data) ==
    LET t == Trim(data)
    IN /\ Includes(t, FIRE_WORD) \/ Includes(t, FLAME_WORD)
       /\ ~IsFormat1(t) /\ ~StartsWith(t, SENSORS_PREFIX)

\* C29: a FIRE or FLAME line decodes to the reading whose slot 1, 2, 3 is 0
\* exactly when the line holds D2 or 1, D3 or 2, D4 or 3; without any of
\* them the reading is all clear, one sensor_update with fireDetected false
\* is published and no fire_alert.
C29_FireTokens ==
    (last.op = "data" /\ IsFireLine(last.data)) =>
        /\ last.values =
              << IF HasPin(last.data, "2") \/ HasChar(last.data, "1") THEN 0 ELSE 1,
                 IF HasPin(last.data, "3") \/ HasChar(last.data, "2") THEN 0 ELSE 1,
                 IF HasPin(last.data, "4") \/ HasChar(last.data, "3") THEN 0 ELSE 1 >>
        /\ (\A c \in {"1", "2", "3"} : ~HasChar(last.data, c)) /\ ~HasPin(last.data, "4") =>
              /\ last.values = <<1, 1, 1>>
              /\ CountType(LastPublished, "fire_alert") = 0
              /\ CountType(LastPublished, "sensor_update") = 1
              /\ \A i \in 1..Len(LastPublished) :
                    LastPublished[i].type = "sensor_update" =>
                        ~LastPublished[i].fireDetected

\* FIRE without a token, after a fire reading: all clear is published.
C29_Witness ==
    /\ last.op = "data" /\ last.data = <<"F", "I", "R", "E">>
    /\ last.values = <<1, 1, 1>> /\ Includes0(last.prevValues)
    /\ CountType(LastPublished, "sensor_update") = 1


\* The reading with slot k at v and the other two slots clear.
SingleSlot(k, v) == [i \in 1..3 |-> IF i = k THEN v ELSE 1]

\* The line S<k>:<v>.
SingleLine(k, v) ==
    <<"S", CASE k = 1 -> "1" [] k = 2 -> "2" [] OTHER -> "3", ":",
      IF v = 0 THEN "0" ELSE "1">>

\* C30: the line S<k>:<v> decodes to the reading with slot k at v and both
\* other slots at 1, whatever was read before: it is the reading of the
\* sensor_update published for the line.
C30_SingleSensorLine ==
    \A k \in 1..3, v \in {0, 1} :
        (last.op = "data" /\ last.data = SingleLine(k, v)) =>
            /\ last.values = SingleSlot(k, v)
            /\ CountType(LastPublished, "sensor_update") = 1
            /\ \A i \in 1..Len(LastPublished) :
                  LastPublished[i].type = "sensor_update" =>
                      LastPublished[i].sensorValues = SingleSlot(k, v)

\* S2:0 right after S1:0: slot 2 alone is tripped.
C30_Witness ==
    /\ last.op = "data" /\ last.data = SingleLine(2, 0)
    /\ last.prevOp = "data" /\ last.prevValues = <<0, 1, 1>>
    /\ \E i \in 1..Len(published) :
          published[i].type = "sensor_update" /\ published[i].sensorValues = <<1, 0, 1>>
    /\ \E i \in 1..Len(published) :
          published[i].type = "fire_alert" /\ published[i].location = "Sensor 1 (D2)"


(***************************************************************************)
(* Properties of the manual triggers (HubSpec).                            *)
(***************************************************************************)
\* C31: one simulate_fire command, and one manual trigger request, counts
\* as one fire reading: fireDetections goes up by one and one fire_alert
\* is published.
C31_OneTriggerOneAlert ==
    last.op \in {"simulate_fire", "api_simulate_fire"} =>
        /\ systemMetrics.fireDetections = last.fd0 + 1
        /\ CountType(LastPublished, "fire_alert") = 1


(***************************************************************************)
(* Properties of the searches and of the owned handle (LinkSpec).          *)
(***************************************************************************)
\* C32: at most one simulation generator is active at any time: the number
\* of running simulation tick timers never exceeds 1, however many searches
\* end without a device.
C32_OneGenerator == Len(simulations) <= 1


OwnedOpen == arduinoPort # 0 /\ port[arduinoPort] \in {"open", "closing"}

\* The event of a handle that a later connect has replaced: it closes, or
\* fails to open, while the owned handle is open and the flag is set.
LateEvent(p) ==
    /\ p # arduinoPort
    /\ port[p] \in {"opening", "closing"} /\ port'[p] = "closed"
    /\ arduinoConnected /\ port[arduinoPort] = "open"
    /\ port'[arduinoPort] = "open"

\* C33: the link-up flag agrees with the owned handle: after every step the
\* flag is true only if the owned handle is open (its close event, if any,
\* not yet emitted), and a close or error event emitted by a handle that a
\* later connect has replaced leaves the flag of the open owned handle set.
C33_FlagFollowsOwnedHandle ==
    [][/\ arduinoConnected' => OwnedOpen'
       /\ \A p \in Handles : LateEvent(p) => arduinoConnected']_vars

\* The close events handled so far: each publishes one disconnected status.
Disconnects ==
    Cardinality({i \in 1..Len(published) :
                    /\ published[i].type = "arduino_status"
                    /\ published[i].status = "disconnected"})

\* C34: a reconnect settles.  While the device stays present and the one
\* reconnect command is the only event from outside (no unplug, no second
\* command), the only handle that closes is the stale one: the new handle
\* is not replaced again, so at most one close event is ever handled.
C34_ReconnectSettles ==
    (device /\ steps <= 1) => Disconnects <= 1



(***************************************************************************)
(* Properties of the producers of a stream session.                        *)
(***************************************************************************)
\* C35: a viewer that disconnects while the probe of its network-camera
\* request is pending leaves no child behind: when the probe completes for
\* a viewer that is gone, the session has no running transcoder (none was
\* spawned, or the spawned one was signalled), and none runs for it later.
C35_NoChildForGoneViewer ==
    [][\A k \in DOMAIN sessions :
          (/\ sessions[k].route = "rtsp" /\ sessions[k].rev = 2
           /\ sessions[k].gone /\ ~sessions[k].liveAtClose) =>
              sessions'[k].child # "running"]_vars


\* C36: in the push-camera proxy at most one attempt is in flight, no
\* candidate is under attempt twice, and the synthetic fallback of the
\* request is started at most once: a failed attempt advances once.
C36_EachCandidateOnce ==
    \A k \in DOMAIN sessions :
        (sessions[k].route = "wifi" /\ sessions[k].rev = 1) =>
            LET attempts == sessions[k].attempts
            IN /\ Len(attempts) <= 1
               /\ \A a, b \in DOMAIN attempts :
                     a # b => attempts[a].url # attempts[b].url
               /\ sessions[k].timers <= 1


\* C37: at most one frame producer writes to a viewer's response: a session
\* has at most one synthetic frame timer, and none while its transcoder
\* child runs.
C37_OneFrameProducer ==
    \A k \in DOMAIN sessions :
        /\ sessions[k].timers <= 1
        /\ sessions[k].child = "running" => sessions[k].timers = 0



(***************************************************************************)
(* Properties of the link during the shutdown (ShutdownSpec).              *)
(***************************************************************************)
\* C38: once the interrupt signal has been handled, no new search for the
\* device starts: the close event of the handle that the signal handler
\* closed sets off no retry, so no handle is made and opened by one.
C38_NoSearchAfterSignal ==
    [][server # "listening" => searching' <= searching]_vars



(***************************************************************************)
(* Properties of the alerts and the subscribers (HubSpec).                 *)
(***************************************************************************)
\* C39: a fire_alert is published, and fireDetections is incremented, only
\* for a reading in which at least one of the three slots is 0: no
\* fire_alert names 'Unknown Location'.
C39_AlertNamesTrippedSlot ==
    /\ systemMetrics.fireDetections > last.fd0 =>
          \E i \in 1..3 : At(last.values, i) = 0
    /\ \A i \in 1..Len(LastPublished) :
          LastPublished[i].type = "fire_alert" =>
              /\ LastPublished[i].location # "Unknown Location"
              /\ \E j \in 1..3 : At(LastPublished[i].sensorValues, j) = 0


\* The connection id a subscriber was given: the clientId of the bootstrap
\* snapshot, the first event it received.
ClientIdOf(ws) == inbox[ws][1].clientId

\* C40: connection ids are unique among live subscribers: no two
\* subscribers that are connected at the same time were given the same
\* connection id in their bootstrap snapshot.
C40_UniqueClientIds ==
    \A v, w \in Ws :
        (v # w /\ readyState[v] = "OPEN" /\ readyState[w] = "OPEN") =>
            ClientIdOf(v) # ClientIdOf(w)

=============================================================================
